---- MODULE Spec2Model ----
(***************************************************************************)
(* Model of the KDP analytics extension and dashboard.                     *)
(*                                                                         *)
(* Two content scripts exist in the repository and both define             *)
(* processAndDeduplicateBooks, isLikelyBookTitle, ...:                     *)
(*   - src/kdp-extension/content.js  ("enhanced" extractor), prefix Enh_   *)
(*   - src/unnamed/part_000          ("advanced" extractor), prefix Adv_   *)
(* The advanced background service is src/unnamed/part_001, prefix Bg_.    *)
(*                                                                         *)
(* Conventions.                                                            *)
(*   - A JavaScript string is a sequence of one-character strings, so that *)
(*     toLowerCase, trim, includes and the regular expressions are         *)
(*     computed, not assumed.  The empty sequence is the empty string; a   *)
(*     string field that is undefined is also modelled by <<>> (the code   *)
(*     only tests these fields for truthiness).                            *)
(*   - A numeric field that is undefined is Undef; JsNum is `x || 0`.      *)
(*   - Money is counted in thousandths of a currency unit, so the KENP     *)
(*     rate 0.004 per read is KenpRateMills = 4 per read.                  *)
(*   - Timestamps (extractedAt, lastUpdated) and marketplace are left out: *)
(*     no operation reads them.                                            *)
(***************************************************************************)
EXTENDS Integers, Sequences, FiniteSets, TLC

VARIABLES
    books,      \* content script: the candidate list handed to processAndDeduplicateBooks
    script,     \* content script: which script's deduplication ran ("none" before)
    result,     \* content script: the array processAndDeduplicateBooks returned
    storedBooks,\* background: chrome.storage.local[BOOKS_DATA]
    saveCalls,  \* background: the saveExtractedData calls, each [pc, data, booksArray]
    storeWritten, \* background: the books key of chrome.storage.local has been set
    bgDay,      \* background: the day new Date() gives
    cleanup,    \* background: performDailyCleanup, [pc, present, booksData, cutoff]
    graph,      \* extractBooksFromObject: the nested value, a node per object or array
    stack,      \* extractBooksFromObject: the frames of traverse, innermost last
    emitted,    \* extractBooksFromObject: the books array
    trPc,       \* extractBooksFromObject: "start", "run", "done" or "overflow"
    trObj,      \* extractBooksFromObject: its argument obj, "value" or "null" ("unset" before the call)
    tblBooks,   \* extractFromTables: the books array
    tblRow,     \* extractFromTables: the number of rows handled
    tblAcc,     \* extractBookDataFromRow: the values collected from the row's cells
    tblLeft,    \* extractBookDataFromRow: the cells of the row still to visit
    tblPc,      \* extractFromTables: "rows", "cells", "returned" or "threw"
    advHeaders, \* extractBookFromTableRow: the header texts of the table
    advBook,    \* extractBookFromTableRow: bookData
    advCells,   \* extractBookFromTableRow: the texts of the cells visited
    advTypes,   \* extractBookFromTableRow: the kind each visited cell was given
    advLeft,    \* extractBookFromTableRow: the cells of the row still to visit
    advResult,  \* extractBookFromTableRow: the value returned
    advPc,      \* extractBookFromTableRow: "table", "cells" or "returned"
    dsUser,     \* dashboard server: the user is in dashboardData.users
    dsKdp,      \* dashboard server: the data of dashboardData.kdpData[userKey]
    dsAds,      \* dashboard server: the data of dashboardData.adsData[userKey]
    dsLog,      \* dashboard server: dashboardData.syncLog
    dsStatus,   \* dashboard server: status of the last response (0: none yet)
    dsOut,      \* dashboard server: data of the /api/dashboard-data response
    dsAsked,    \* dashboard server: /api/dashboard-data has been answered
    dsMatched,  \* dashboard server: matchingAds of each record of the last answer
    extractionInProgress, \* content.js: the flag extractionInProgress
    extCalls,    \* content.js: the calls of performEnhancedExtraction, each [pc, answer]
    syncInProgress, \* background: backgroundState.syncInProgress
    retryCount,  \* background: backgroundState.retryCount
    retryTimers, \* background: the retry timeouts of performScheduledSync not yet fired
    syncCalls,   \* background: the calls of performScheduledSync, each [pc, outcome, tabs, books]
    srvUsers,    \* cloud server: the keys of appData.users
    srvBooks,    \* cloud server: appData.books, a Map
    srvUuids,    \* cloud server: the number of ids crypto.randomUUID() has given
    srvLast,     \* cloud server: the last request handled, [op, user]
    srvOut,      \* cloud server: the last /api/data answer, [user, books]
    sb,          \* background.js: [isAutoSyncEnabled, autoSyncInterval, live, pendingGets, timers]
    sbStored,    \* background.js: autoSyncEnabled of chrome.storage.sync ("unset", "true", "false")
    sbLoads,     \* background.js: the calls of loadSettingsAndStartSync awaiting the settings
    kdpState,         \* advanced content script: extractionState, [isActive, retryCount, intervalId, timeouts]
    kdpCalls,    \* advanced content script: the calls of performKDPExtraction, each [pc, from, performed, answer]
    bgs,         \* background service: backgroundState, [isAutoSyncEnabled, currentSyncInterval, autoSync, live, timers]
    bgsStorage,  \* background service: the settings in chrome.storage, [local, sync]
    bgsInits,    \* background service: the initializeBackgroundService call of each event
    bgsAsked,    \* background service: the settings last asked for, and the last operation completed
    capStream,   \* dashboard server: the stream of /api/sync requests it receives
    capCount,    \* dashboard server: the number of /api/sync requests received
    capUsers,    \* dashboard server: the keys of dashboardData.users
    capKdp,      \* dashboard server: the timestamps of each user's kdpData list
    capAds,      \* dashboard server: the timestamps of each user's adsData list
    capLog       \* dashboard server: the timestamps of dashboardData.syncLog

dedupVars == <<books, script, result>>
storeVars == <<storedBooks, saveCalls, storeWritten, bgDay, cleanup>>
traverseVars == <<graph, stack, emitted, trPc, trObj>>
tablesVars == <<tblBooks, tblRow, tblAcc, tblLeft, tblPc>>
advRowVars == <<advHeaders, advBook, advCells, advTypes, advLeft, advResult, advPc>>
dsVars == <<dsUser, dsKdp, dsAds, dsLog, dsStatus, dsOut, dsAsked, dsMatched>>
extVars == <<extractionInProgress, extCalls>>
syncVars == <<syncInProgress, retryCount, retryTimers, syncCalls>>
srvVars == <<srvUsers, srvBooks, srvUuids, srvLast, srvOut>>
sbVars == <<sb, sbStored, sbLoads>>
kdpVars == <<kdpState, kdpCalls>>
bgsVars == <<bgs, bgsStorage, bgsInits, bgsAsked>>
capVars == <<capStream, capCount, capUsers, capKdp, capAds, capLog>>
vars == <<books, script, result, storedBooks, saveCalls, storeWritten, bgDay, cleanup,
          graph, stack, emitted, trPc, trObj,
          tblBooks, tblRow, tblAcc, tblLeft, tblPc,
          advHeaders, advBook, advCells, advTypes, advLeft, advResult, advPc,
          dsUser, dsKdp, dsAds, dsLog, dsStatus, dsOut, dsAsked, dsMatched,
          extractionInProgress, extCalls,
          syncInProgress, retryCount, retryTimers, syncCalls,
          srvUsers, srvBooks, srvUuids, srvLast, srvOut,
          sb, sbStored, sbLoads,
          kdpState, kdpCalls,
          bgs, bgsStorage, bgsInits, bgsAsked,
          capStream, capCount, capUsers, capKdp, capAds, capLog>>

\* What an action of one component leaves alone: the other components.
notDedup == <<storeVars, traverseVars, tablesVars, advRowVars, dsVars, extVars, syncVars, srvVars, sbVars, kdpVars, bgsVars, capVars>>
notStore == <<dedupVars, traverseVars, tablesVars, advRowVars, dsVars, extVars, syncVars, srvVars, sbVars, kdpVars, bgsVars, capVars>>
notTraverse == <<dedupVars, storeVars, tablesVars, advRowVars, dsVars, extVars, syncVars, srvVars, sbVars, kdpVars, bgsVars, capVars>>
notTables == <<dedupVars, storeVars, traverseVars, advRowVars, dsVars, extVars, syncVars, srvVars, sbVars, kdpVars, bgsVars, capVars>>
notAdvRow == <<dedupVars, storeVars, traverseVars, tablesVars, dsVars, extVars, syncVars, srvVars, sbVars, kdpVars, bgsVars, capVars>>
notDs == <<dedupVars, storeVars, traverseVars, tablesVars, advRowVars, extVars, syncVars, srvVars, sbVars, kdpVars, bgsVars, capVars>>
notExt == <<dedupVars, storeVars, traverseVars, tablesVars, advRowVars, dsVars, syncVars, srvVars, sbVars, kdpVars, bgsVars, capVars>>
notSync == <<dedupVars, storeVars, traverseVars, tablesVars, advRowVars, dsVars, extVars, srvVars, sbVars, kdpVars, bgsVars, capVars>>
notSrv == <<dedupVars, storeVars, traverseVars, tablesVars, advRowVars, dsVars, extVars, syncVars, sbVars, kdpVars, bgsVars, capVars>>
notSb == <<dedupVars, storeVars, traverseVars, tablesVars, advRowVars, dsVars, extVars, syncVars, srvVars, kdpVars, bgsVars, capVars>>
notKdp == <<dedupVars, storeVars, traverseVars, tablesVars, advRowVars, dsVars, extVars, syncVars, srvVars, sbVars, bgsVars, capVars>>
notBgs == <<dedupVars, storeVars, traverseVars, tablesVars, advRowVars, dsVars, extVars, syncVars, srvVars, sbVars, kdpVars, capVars>>
notCap == <<dedupVars, storeVars, traverseVars, tablesVars, advRowVars, dsVars, extVars, syncVars, srvVars, sbVars, kdpVars, bgsVars>>

----------------------------------------------------------------------------
(* Bounds *)
MaxBooks == 2
MaxSaves == 2
MaxNodes == 3
MaxCells == 3
MaxRows == 2
MaxHeaders == 1
MaxSyncs == 3
MaxTicks == 2
TickDays == 200
MaxExtCalls == 2
MaxSyncCalls == 2
MaxTabs == 2
MaxUuids == 1
MaxTimers == 3
MaxKdpCalls == 5
MaxKdpTimeouts == 2
MaxCapSyncs == 1002

----------------------------------------------------------------------------
(* JavaScript values *)

Undef == 0 - 1

JsNum(x) == IF x = Undef THEN 0 ELSE x

JsMax(a, b) == IF a >= b THEN a ELSE b

Truthy(s) == s # <<>>

JsOr(a, b) == IF Truthy(a) THEN a ELSE b

SetMin(S) == CHOOSE x \in S : \A y \in S : x <= y

SetMax(S) == CHOOSE x \in S : \A y \in S : x >= y

UpperChars == <<"A","B","C","D","E","F","G","H","I","J","K","L","M",
                "N","O","P","Q","R","S","T","U","V","W","X","Y","Z">>

LowerChars == <<"a","b","c","d","e","f","g","h","i","j","k","l","m",
                "n","o","p","q","r","s","t","u","v","w","x","y","z">>

ToLowerChar(c) ==
    IF \E i \in 1..26 : UpperChars[i] = c
    THEN LowerChars[CHOOSE i \in 1..26 : UpperChars[i] = c]
    ELSE c

ToLowerCase(s) == [i \in 1..Len(s) |-> ToLowerChar(s[i])]

IsSpace(c) == c \in {" ", "\t", "\n"}

Trim(s) ==
    LET keep == {i \in 1..Len(s) : ~IsSpace(s[i])}
    IN  IF keep = {} THEN <<>> ELSE SubSeq(s, SetMin(keep), SetMax(keep))


DigitChars == <<"0","1","2","3","4","5","6","7","8","9">>

IsDigit(c) == \E i \in 1..10 : DigitChars[i] = c

IsLetter(c) == \E i \in 1..26 : UpperChars[i] = c \/ LowerChars[i] = c

ToUpperChar(c) ==
    IF \E i \in 1..26 : LowerChars[i] = c
    THEN UpperChars[CHOOSE i \in 1..26 : LowerChars[i] = c]
    ELSE c

ToUpperCase(s) == [i \in 1..Len(s) |-> ToUpperChar(s[i])]

\* String.prototype.includes
Includes(s, pat) ==
    \E i \in 0..(Len(s) - Len(pat)) : \A j \in 1..Len(pat) : s[i + j] = pat[j]

DigitVal(c) == (CHOOSE i \in 1..10 : DigitChars[i] = c) - 1

AllDigits(s) == Len(s) > 0 /\ \A i \in 1..Len(s) : IsDigit(s[i])      \* /^\d+$/

\* The value of a string of digits (parseInt of a text matching /^\d+$/).
RECURSIVE DigitsValue(_)
DigitsValue(s) ==
    IF s = <<>> THEN 0
    ELSE 10 * DigitsValue(SubSeq(s, 1, Len(s) - 1)) + DigitVal(s[Len(s)])

\* The last index of the longest run of characters of class P that starts at
\* index i (i - 1 when s[i] is not of the class).
RunEnd(s, i, P(_)) ==
    SetMax({ e \in (i - 1)..Len(s) : \A k \in i..e : P(s[k]) })

\* text.match(/\d+/): the first run of digits, <<>> when there is none (null).
FirstDigitRun(s) ==
    IF \E i \in 1..Len(s) : IsDigit(s[i])
    THEN LET b == SetMin({ i \in 1..Len(s) : IsDigit(s[i]) })
         IN  SubSeq(s, b, RunEnd(s, b, IsDigit))
    ELSE <<>>

IsDigitOrComma(c) == IsDigit(c) \/ c = ","

\* The matches of /\$[\d,]+\.?\d*/g as [from, intEnd, to]: "$", a run of digits
\* and commas ending at intEnd, then "." and digits up to `to` when present.
DollarMatches(s) ==
    { [from |-> i,
       intEnd |-> RunEnd(s, i + 1, IsDigitOrComma),
       to |-> LET e == RunEnd(s, i + 1, IsDigitOrComma)
              IN  IF e < Len(s) /\ s[e + 1] = "." THEN RunEnd(s, e + 2, IsDigit) ELSE e] :
        i \in { k \in 1..Len(s) : s[k] = "$" /\ k < Len(s) /\ IsDigitOrComma(s[k + 1]) } }

\* parseFloat(match.replace(/[$,]/g, '')) in thousandths; Undef stands for NaN
\* (no digit before the point).  Decimals beyond the third are dropped.
MoneyValue(s, m) ==
    LET int  == SelectSeq(SubSeq(s, m.from + 1, m.intEnd), IsDigit)
        frac == IF m.to > m.intEnd + 1 THEN SubSeq(s, m.intEnd + 2, m.to) ELSE <<>>
        f3   == SubSeq(frac \o <<"0","0","0">>, 1, 3)
    IN  IF int = <<>> THEN Undef
        ELSE 1000 * DigitsValue(int) + DigitsValue(f3)

----------------------------------------------------------------------------
(* Candidate records *)

KenpRateMills == 4

\* isLikelyBookTitle of content.js: longest title, and the length from which
\* an all-capitals text is no title.
MaxTitleLen == 200
AllCapsLen == 20

\* The length of an ASIN, and the ceiling of a sales count (content.js 244, 259).
AsinLen == 10
SalesCeiling == 10000

\* isLikelyBookTitle of part_000: longest title; extractFromKDPTables: fewest
\* cells of a row that is read (part_000 548, 226).
AdvMaxTitleLen == 300
MinCells == 3

\* dashboard_server.js: the length of the prefix compared by the matching
\* (353), and the entries kept per user and in the log (73, 101).
MatchPrefixLen == 20
DsEntryCap == 100
DsLogCap == 1000

\* part_001: the default of dataRetentionDays (482).
RetentionDays == 365

\* part_001: CONFIG.MAX_RETRY_ATTEMPTS (12).
MaxRetryAttempts == 3

Book(t, a, roy, sales, reads, kroy, c, src) ==
    [title |-> t, asin |-> a, id |-> <<>>,
     totalRoyalties |-> roy, totalSales |-> sales,
     kenpReads |-> reads, kenpRoyalties |-> kroy,
     country |-> c, source |-> src]

\* Titles: two spellings of one normalized title, a second title, the empty title.
Titles == { <<>>, <<"A","b","c">>, <<" ","a","b","c">>, <<"X","y","z">> }

\* Identifiers (short stand-ins for 10-character ASINs), or none.
Asins == { <<>>, <<"B","1">>, <<"B","2">> }

\* The shapes the extractors emit.
\*   element/widget: title and totalRoyalties only      (content.js 519-524)
\*   nested object : no kenpRoyalties, no country       (content.js 555-563)
\*   table row     : every field set                    (content.js 276-287)
\*   bookshelf     : every metric 0                     (content.js 648-657)
\*   raw row       : reads with kenpRoyalties still 0   (part_000 252-269)
Shapes == {
    [roy |-> 5000,  sales |-> Undef, reads |-> Undef, kroy |-> Undef, c |-> <<>>,        src |-> "widget"],
    [roy |-> 0,     sales |-> 3,     reads |-> 250,   kroy |-> Undef, c |-> <<>>,        src |-> "js"],
    [roy |-> 7000,  sales |-> 0,     reads |-> 500,   kroy |-> 2000,  c |-> <<"U","K">>, src |-> "table"],
    [roy |-> 0,     sales |-> 0,     reads |-> 0,     kroy |-> 0,     c |-> <<>>,        src |-> "bookshelf"],
    [roy |-> 0,     sales |-> 0,     reads |-> 300,   kroy |-> 0,     c |-> <<"D","E">>, src |-> "row"] }

Candidates ==
    { Book(t, a, s.roy, s.sales, s.reads, s.kroy, s.c, s.src) :
        t \in Titles, a \in Asins, s \in Shapes }

\* Values crypto.getRandomValues can give the fallback id (part_000 627-629).
RandomIds == { <<"r","1">>, <<"r","2">> }

----------------------------------------------------------------------------
(* JavaScript Map, in insertion order: a sequence of [key, rec] entries *)

MapHas(m, k) == \E i \in 1..Len(m) : m[i].key = k

MapGet(m, k) == m[CHOOSE i \in 1..Len(m) : m[i].key = k].rec

MapSet(m, k, r) ==
    IF MapHas(m, k)
    THEN [i \in 1..Len(m) |-> IF m[i].key = k THEN [key |-> k, rec |-> r] ELSE m[i]]
    ELSE Append(m, [key |-> k, rec |-> r])

MapValues(m) == [i \in 1..Len(m) |-> m[i].rec]

----------------------------------------------------------------------------
(* Advanced content script, src/unnamed/part_000 *)

\* isValidBookData without its metric test.
isValidBookData_NoMetricCheck(book) ==
    /\ Truthy(book.title)
    /\ Len(book.title) > 2

isValidBookData(book) ==
    /\ Truthy(book.title)
    /\ Len(book.title) > 2
    /\ (book.totalRoyalties > 0 \/ book.totalSales > 0 \/ book.kenpReads > 0)

\* enhanceBookData without the derivation of kenpRoyalties.
enhanceBookData_NoDerivation(book, rnd) ==
    [book EXCEPT
        !.country = IF ~Truthy(book.country) THEN <<"U","S">> ELSE book.country,
        !.id = IF ~Truthy(book.id) /\ ~Truthy(book.asin) THEN rnd ELSE book.id]

\* enhanceBookData without the default of the country.
enhanceBookData_NoCountryDefault(book, rnd) ==
    [book EXCEPT
        !.kenpRoyalties = IF book.kenpReads > 0 /\ book.kenpRoyalties = 0
                          THEN book.kenpReads * KenpRateMills
                          ELSE book.kenpRoyalties,
        !.id = IF ~Truthy(book.id) /\ ~Truthy(book.asin) THEN rnd ELSE book.id]

enhanceBookData(book, rnd) ==
    [book EXCEPT
        !.kenpRoyalties = IF book.kenpReads > 0 /\ book.kenpRoyalties = 0
                          THEN book.kenpReads * KenpRateMills
                          ELSE book.kenpRoyalties,
        !.country = IF ~Truthy(book.country) THEN <<"U","S">> ELSE book.country,
        !.id = IF ~Truthy(book.id) /\ ~Truthy(book.asin) THEN rnd ELSE book.id]

Adv_mergeBookData(existing, newBook) ==
    [existing EXCEPT
        !.totalRoyalties = JsMax(JsNum(existing.totalRoyalties), JsNum(newBook.totalRoyalties)),
        !.totalSales     = JsMax(JsNum(existing.totalSales), JsNum(newBook.totalSales)),
        !.kenpReads      = JsMax(JsNum(existing.kenpReads), JsNum(newBook.kenpReads)),
        !.kenpRoyalties  = JsMax(JsNum(existing.kenpRoyalties), JsNum(newBook.kenpRoyalties)),
        !.asin           = JsOr(existing.asin, newBook.asin),
        !.country        = JsOr(existing.country, newBook.country)]

Adv_key(book) == JsOr(book.asin, Trim(ToLowerCase(book.title)))

\* One iteration of books.forEach (part_000 638-650).
Adv_foldBook(bookMap, book, rnd) ==
    IF ~isValidBookData(book) THEN bookMap
    ELSE IF MapHas(bookMap, Adv_key(book))
         THEN MapSet(bookMap, Adv_key(book),
                     Adv_mergeBookData(MapGet(bookMap, Adv_key(book)), book))
         ELSE MapSet(bookMap, Adv_key(book), enhanceBookData(book, rnd))

RECURSIVE Adv_fold(_, _, _)
Adv_fold(bs, rnds, n) ==
    IF n = 0 THEN <<>>
    ELSE Adv_foldBook(Adv_fold(bs, rnds, n - 1), bs[n], rnds[n])

Adv_processAndDeduplicateBooks(bs, rnds) == MapValues(Adv_fold(bs, rnds, Len(bs)))

----------------------------------------------------------------------------
(* Enhanced content script, src/kdp-extension/content.js *)

Enh_key(book) == Trim(ToLowerCase(book.title))

Enh_mergeEntry(existing, book) ==
    [existing EXCEPT
        !.totalRoyalties = JsMax(JsNum(existing.totalRoyalties), JsNum(book.totalRoyalties)),
        !.totalSales     = JsMax(JsNum(existing.totalSales), JsNum(book.totalSales)),
        !.kenpReads      = JsMax(JsNum(existing.kenpReads), JsNum(book.kenpReads)),
        !.kenpRoyalties  = JsMax(JsNum(existing.kenpRoyalties), JsNum(book.kenpRoyalties)),
        !.asin           = JsOr(existing.asin, JsOr(book.asin, <<>>)),
        !.country        = JsOr(existing.country, JsOr(book.country, <<"U","S">>))]

Enh_newEntry(book) ==
    [title |-> book.title, asin |-> JsOr(book.asin, <<>>), id |-> <<>>,
     totalRoyalties |-> JsNum(book.totalRoyalties),
     totalSales     |-> JsNum(book.totalSales),
     kenpReads      |-> JsNum(book.kenpReads),
     kenpRoyalties  |-> IF JsNum(book.kenpRoyalties) # 0 THEN book.kenpRoyalties
                        ELSE JsNum(book.kenpReads) * KenpRateMills,
     country |-> JsOr(book.country, <<"U","S">>),
     source  |-> IF book.source = "" THEN "unknown" ELSE book.source]

\* One iteration of books.forEach (content.js 578-611).
Enh_foldBook(bookMap, book) ==
    IF ~Truthy(book.title) THEN bookMap
    ELSE IF MapHas(bookMap, Enh_key(book))
         THEN MapSet(bookMap, Enh_key(book),
                     Enh_mergeEntry(MapGet(bookMap, Enh_key(book)), book))
         ELSE MapSet(bookMap, Enh_key(book), Enh_newEntry(book))

RECURSIVE Enh_fold(_, _)
Enh_fold(bs, n) ==
    IF n = 0 THEN <<>> ELSE Enh_foldBook(Enh_fold(bs, n - 1), bs[n])

\* The filter applied to the map's values (content.js 613-616).
Enh_keep(book) ==
    /\ Len(book.title) > 2
    /\ (book.totalRoyalties > 0 \/ book.totalSales > 0 \/ book.kenpReads > 0)

Enh_processAndDeduplicateBooks(bs) ==
    SelectSeq(MapValues(Enh_fold(bs, Len(bs))), Enh_keep)

----------------------------------------------------------------------------
(* Advanced background service, src/unnamed/part_001: the book store *)

\* What the content scripts send with 'saveData': deduplicated records.  The
\* enhanced script's records carry no id, the advanced script's records
\* without identifier carry a random one.
StoreLevels == {
    [roy |-> 5000, sales |-> 3, reads |-> 250, kroy |-> 1000, c |-> <<"U","S">>, src |-> "js"],
    [roy |-> 7000, sales |-> 0, reads |-> 500, kroy |-> 2000, c |-> <<"U","K">>, src |-> "table"] }

StoreIdents == { [asin |-> <<"B","1">>, id |-> <<>>], [asin |-> <<>>, id |-> <<>>],
                 [asin |-> <<>>, id |-> <<"r","1">>], [asin |-> <<>>, id |-> <<"r","2">>] }

StoreBooks ==
    { [Book(<<"A","b","c">>, k.asin, l.roy, l.sales, l.reads, l.kroy, l.c, l.src)
         EXCEPT !.id = k.id] : k \in StoreIdents, l \in StoreLevels }

\* data.books of one message: one record, or two observations of one book.
Batches ==
    { <<b>> : b \in StoreBooks }
    \cup { <<b, d>> : b \in { x \in StoreBooks : x.source = "js" },
                      d \in { x \in StoreBooks : x.source = "table" } }

SaveIds == 1..MaxSaves

Bg_key(book) == JsOr(book.asin, JsOr(book.id, ToLowerCase(book.title)))

\* {...existing, ...book}: a property of book replaces that of existing.  A
\* property that is absent from book (<<>>, Undef) leaves existing's value.
SpreadOver(existing, book) ==
    [f \in DOMAIN existing |->
        IF f \notin DOMAIN book THEN existing[f]
        ELSE IF book[f] = (IF f \in {"totalRoyalties", "totalSales", "kenpReads", "kenpRoyalties"}
                      THEN Undef ELSE IF f = "source" THEN "" ELSE <<>>)
        THEN existing[f] ELSE book[f]]

\* {...book, lastUpdated: now}
Stamp(book, now) ==
    [f \in DOMAIN book \cup {"lastUpdated"} |-> IF f = "lastUpdated" THEN now ELSE book[f]]

Bg_mergeEntry(existing, book, now) ==
    [SpreadOver(existing, book) EXCEPT
        !.lastUpdated    = now,
        !.totalRoyalties = JsMax(JsNum(existing.totalRoyalties), JsNum(book.totalRoyalties)),
        !.totalSales     = JsMax(JsNum(existing.totalSales), JsNum(book.totalSales)),
        !.kenpReads      = JsMax(JsNum(existing.kenpReads), JsNum(book.kenpReads))]

\* existing.forEach (part_001 679-684)
RECURSIVE Bg_loadExisting(_, _)
Bg_loadExisting(existing, n) ==
    IF n = 0 THEN <<>>
    ELSE IF Truthy(Bg_key(existing[n]))
         THEN MapSet(Bg_loadExisting(existing, n - 1), Bg_key(existing[n]), existing[n])
         ELSE Bg_loadExisting(existing, n - 1)

\* newBooks.forEach (part_001 687-708)
RECURSIVE Bg_foldNew(_, _, _, _)
Bg_foldNew(bookMap, newBooks, n, now) ==
    IF n = 0 THEN bookMap
    ELSE LET m == Bg_foldNew(bookMap, newBooks, n - 1, now)
             b == newBooks[n]
         IN  IF ~Truthy(Bg_key(b)) THEN m
             ELSE IF MapHas(m, Bg_key(b))
                  THEN MapSet(m, Bg_key(b), Bg_mergeEntry(MapGet(m, Bg_key(b)), b, now))
                  ELSE MapSet(m, Bg_key(b), Stamp(b, now))

\* mergeBookData; now is the day that new Date() gives.
Bg_mergeBookData(existing, newBooks, now) ==
    MapValues(Bg_foldNew(Bg_loadExisting(existing, Len(existing)), newBooks,
                         Len(newBooks), now))

StoreInit ==
    /\ storedBooks = <<>>
    /\ storeWritten = FALSE
    /\ saveCalls = [c \in SaveIds |-> [pc |-> "idle", data |-> <<>>, booksArray |-> <<>>]]
    /\ bgDay = 0
    /\ cleanup = [pc |-> "idle", present |-> FALSE, booksData |-> <<>>, cutoff |-> 0]

\* saveExtractedData up to the resolution of `await chrome.storage.local.get`
\* (part_001 632-639): the call holds the array it read.
Bg_saveGet(c, batch) ==
    /\ saveCalls[c].pc = "idle"
    /\ saveCalls' = [saveCalls EXCEPT ![c] =
                        [pc |-> "merge", data |-> batch, booksArray |-> storedBooks]]
    /\ UNCHANGED <<storedBooks, storeWritten, bgDay, cleanup>>
    /\ UNCHANGED notStore

\* saveExtractedData from mergeBookData to `await chrome.storage.local.set`
\* (part_001 642-646).
Bg_saveSet(c) ==
    /\ saveCalls[c].pc = "merge"
    /\ storedBooks' = Bg_mergeBookData(saveCalls[c].booksArray, saveCalls[c].data, bgDay)
    /\ storeWritten' = TRUE
    /\ saveCalls' = [saveCalls EXCEPT ![c].pc = "done"]
    /\ UNCHANGED <<bgDay, cleanup>>
    /\ UNCHANGED notStore

\* Time passes: TickDays days.
Bg_Tick ==
    /\ bgDay < MaxTicks * TickDays
    /\ bgDay' = bgDay + TickDays
    /\ UNCHANGED <<storedBooks, storeWritten, saveCalls, cleanup>>
    /\ UNCHANGED notStore

\* performDailyCleanup up to the resolution of `await chrome.storage.local.get`
\* of the books (part_001 468-486); the retention is the default of the
\* settings.  The sync log is not part of this model.
Bg_cleanupGet ==
    /\ cleanup.pc = "idle"
    /\ cleanup' = [pc |-> "filter", present |-> storeWritten, booksData |-> storedBooks,
                   cutoff |-> bgDay - RetentionDays]
    /\ UNCHANGED <<storedBooks, storeWritten, saveCalls, bgDay>>
    /\ UNCHANGED notStore

\* performDailyCleanup from the filter to `await chrome.storage.local.set`
\* (part_001 487-495).
Bg_cleanupSet ==
    /\ cleanup.pc = "filter"
    /\ IF cleanup.present
       THEN /\ storedBooks' = SelectSeq(cleanup.booksData,
                                        LAMBDA book : book.lastUpdated > cleanup.cutoff)
            /\ storeWritten' = TRUE
       ELSE UNCHANGED <<storedBooks, storeWritten>>
    /\ cleanup' = [cleanup EXCEPT !.pc = "idle"]
    /\ UNCHANGED <<saveCalls, bgDay>>
    /\ UNCHANGED notStore

StoreNext ==
    \/ \E c \in SaveIds, batch \in Batches : Bg_saveGet(c, batch)
    \/ \E c \in SaveIds : Bg_saveSet(c)
    \/ Bg_Tick
    \/ Bg_cleanupGet
    \/ Bg_cleanupSet

----------------------------------------------------------------------------
(* The content scripts' extraction run, up to the deduplicated result *)

DedupInit ==
    /\ books = <<>>
    /\ script = "none"
    /\ result = <<>>

\* books.push(...) of one extraction method's candidate
\* (content.js 121-142, part_000 167-180).
Collect(c) ==
    /\ script = "none"
    /\ Len(books) < MaxBooks
    /\ books' = Append(books, c)
    /\ UNCHANGED <<script, result>>
    /\ UNCHANGED notDedup

\* content.js 145: processAndDeduplicateBooks(books)
Enh_Deduplicate ==
    /\ script = "none"
    /\ script' = "enhanced"
    /\ result' = Enh_processAndDeduplicateBooks(books)
    /\ UNCHANGED books
    /\ UNCHANGED notDedup

\* part_000 183: processAndDeduplicateBooks(extractedData.books)
Adv_Deduplicate ==
    /\ script = "none"
    /\ \E rnds \in [1..Len(books) -> RandomIds] :
         result' = Adv_processAndDeduplicateBooks(books, rnds)
    /\ script' = "advanced"
    /\ UNCHANGED books
    /\ UNCHANGED notDedup

DedupNext ==
    \/ \E c \in Candidates : Collect(c)
    \/ Enh_Deduplicate
    \/ Adv_Deduplicate

----------------------------------------------------------------------------
(* Enhanced content script: isLikelyBookTitle and extractBooksFromObject *)

Enh_uiKeywords ==
    { <<"d","a","s","h","b","o","a","r","d">>,
      <<"r","e","p","o","r","t">>,
      <<"t","o","t","a","l">>,
      <<"s","u","m","m","a","r","y">>,
      <<"d","a","t","e">>,
      <<"f","i","l","t","e","r">>,
      <<"e","x","p","o","r","t">>,
      <<"d","o","w","n","l","o","a","d">>,
      <<"v","i","e","w">>,
      <<"d","e","t","a","i","l","s">>,
      <<"m","o","r","e">>,
      <<"l","e","s","s">>,
      <<"e","x","p","a","n","d">>,
      <<"c","o","l","l","a","p","s","e">>,
      <<"r","o","y","a","l","t","i","e","s">>,
      <<"e","a","r","n","i","n","g","s">>,
      <<"s","a","l","e","s">>,
      <<"k","i","n","d","l","e">>,
      <<"d","i","r","e","c","t">>,
      <<"p","u","b","l","i","s","h","i","n","g">>,
      <<"a","m","a","z","o","n">>,
      <<"s","e","l","e","c","t">>,
      <<"u","n","l","i","m","i","t","e","d">>,
      <<"k","e","n","p">>,
      <<"a","s","i","n">>,
      <<"m","a","r","k","e","t","p","l","a","c","e">>,
      <<"c","u","r","r","e","n","c","y">>,
      <<"p","e","r","i","o","d">>,
      <<"r","a","n","g","e">>,
      <<"m","o","n","t","h">>,
      <<"y","e","a","r">>,
      <<"t","o","d","a","y">>,
      <<"y","e","s","t","e","r","d","a","y">>,
      <<"w","e","e","k">>,
      <<"q","u","a","r","t","e","r">>,
      <<"l","o","a","d","i","n","g">>,
      <<"p","l","e","a","s","e"," ","w","a","i","t">>,
      <<"n","o"," ","d","a","t","a">>,
      <<"e","r","r","o","r">> }

\* The characters of /^[a-zA-Z0-9\s\-:.,'"!?&()]+$/
Enh_validChar(c) ==
    IsLetter(c) \/ IsDigit(c) \/ IsSpace(c)
      \/ c \in {"-", ":", ".", ",", "'", "\"", "!", "?", "&", "(", ")"}

Enh_isLikelyBookTitle(text) ==
    /\ Truthy(text) /\ Len(text) >= 3 /\ Len(text) <= MaxTitleLen
    /\ ~\E k \in Enh_uiKeywords : Includes(ToLowerCase(text), k)
    /\ \E i \in 1..Len(text) : IsLetter(text[i])                      \* hasLetters
    /\ (text # ToUpperCase(text) \/ Len(text) < AllCapsLen)           \* notAllCaps
    /\ ~\A i \in 1..Len(text) : IsDigit(text[i])                      \* notOnlyNumbers
    /\ ~\A i \in 1..Len(text) :
           ~(IsLetter(text[i]) \/ IsDigit(text[i]) \/ IsSpace(text[i])) \* notOnlySymbols
    /\ \A i \in 1..Len(text) : Enh_validChar(text[i])                 \* hasValidChars

\* A nested value is a graph of nodes (objects and arrays).  Node 1 is the
\* value handed to extractBooksFromObject.  kids are the entries of the node
\* (property values, array elements) that are objects or arrays, in key
\* order; primitive entries are skipped by the traversal and left out.
\* title is value.title || value.name || value.productName (<<>> when the
\* object has none), revenue is value.revenue || value.royalties ||
\* value.earnings (Undef when it has none of the metric fields).
NodeIds == 1..MaxNodes

GoodTitle == <<"M","y"," ","B","o","o","k">>

UiTitle == <<"T","o","t","a","l">>

NodeKinds == {
    [isArray |-> TRUE,  title |-> <<>>,      revenue |-> Undef],   \* an array
    [isArray |-> FALSE, title |-> <<>>,      revenue |-> Undef],   \* no name-like field
    [isArray |-> FALSE, title |-> GoodTitle, revenue |-> 5000],    \* a book
    [isArray |-> FALSE, title |-> GoodTitle, revenue |-> Undef],   \* a title, no metric
    [isArray |-> FALSE, title |-> UiTitle,   revenue |-> 5000] }   \* a UI label

\* The entries of a node, in key order: a set of node ids in increasing order.
RECURSIVE SetToSeq(_)
SetToSeq(S) ==
    IF S = {} THEN <<>>
    ELSE LET x == SetMin(S) IN <<x>> \o SetToSeq(S \ {x})

Nodes == { [isArray |-> k.isArray, title |-> k.title, revenue |-> k.revenue,
            kids |-> SetToSeq(K)] : k \in NodeKinds, K \in SUBSET NodeIds }

\* The call stack has room for StackLimit frames of traverse: more than any
\* acyclic value of MaxNodes nodes needs.
StackLimit == MaxNodes + 1

Frame(n) == [node |-> n, i |-> 1, j |-> 0]

TraverseInit ==
    /\ graph \in [NodeIds -> Nodes]
    /\ graph[1].title \in {<<>>, GoodTitle}
    /\ graph[1].title = <<>> \/ graph[1].revenue # Undef
    /\ stack = <<>>
    /\ emitted = <<>>
    /\ trPc = "start"
    /\ trObj = "unset"

\* extractBooksFromObject(obj) with obj an object: traverse(obj)
\* (content.js 571); `!o` never holds of a node.
Tr_Call ==
    /\ trPc = "start"
    /\ stack' = <<Frame(1)>>
    /\ trPc' = "run"
    /\ trObj' = "value"
    /\ UNCHANGED <<graph, emitted>>
    /\ UNCHANGED notTraverse

\* extractBooksFromObject(obj) with obj null or undefined: traverse(obj)
\* returns at `if (!o || typeof o !== 'object') return;` (content.js 536) and
\* the empty books array is returned (572).
Tr_CallNull ==
    /\ trPc = "start"
    /\ trObj' = "null"
    /\ trPc' = "done"
    /\ UNCHANGED <<graph, stack, emitted>>
    /\ UNCHANGED notTraverse

Top == stack[Len(stack)]

TopValue == graph[Top.node].kids[Top.i]

SetTop(f) == [stack EXCEPT ![Len(stack)] = f]

\* The for-in loop of the top frame is over: traverse returns (content.js 568).
Tr_Return ==
    /\ trPc = "run" /\ stack # <<>>
    /\ Top.i > Len(graph[Top.node].kids)
    /\ stack' = SubSeq(stack, 1, Len(stack) - 1)
    /\ trPc' = IF Len(stack) = 1 THEN "done" ELSE "run"
    /\ UNCHANGED <<graph, emitted, trObj>>
    /\ UNCHANGED notTraverse

\* The entry is an array: value.forEach calls traverse(item) for each item
\* that is an object, and tests no item for book data (content.js 544-549).
Tr_ArrayItem ==
    /\ trPc = "run" /\ stack # <<>>
    /\ Top.i <= Len(graph[Top.node].kids)
    /\ graph[TopValue].isArray
    /\ LET items == graph[TopValue].kids
           j == Top.j + 1
       IN  IF j > Len(items)
           THEN /\ stack' = SetTop([Top EXCEPT !.i = Top.i + 1, !.j = 0])
                /\ trPc' = "run"
           ELSE IF Len(stack) < StackLimit
                THEN /\ stack' = Append(SetTop([Top EXCEPT !.j = j]), Frame(items[j]))
                     /\ trPc' = "run"
                ELSE /\ stack' = <<>>
                     /\ trPc' = "overflow"
    /\ UNCHANGED <<graph, emitted, trObj>>
    /\ UNCHANGED notTraverse

\* The entry is an object: it is tested for book data, then traversed
\* (content.js 550-567).  A call that finds the stack full throws RangeError,
\* which leaves extractBooksFromObject without a return value.
Tr_Object ==
    /\ trPc = "run" /\ stack # <<>>
    /\ Top.i <= Len(graph[Top.node].kids)
    /\ ~graph[TopValue].isArray
    /\ LET value == graph[TopValue]
           found == IF Truthy(value.title) /\ Enh_isLikelyBookTitle(value.title)
                    THEN Append(emitted, [node |-> TopValue, title |-> value.title,
                                          totalRoyalties |-> JsNum(value.revenue)])
                    ELSE emitted
       IN  IF Len(stack) < StackLimit
           THEN /\ stack' = Append(SetTop([Top EXCEPT !.i = Top.i + 1]), Frame(TopValue))
                /\ emitted' = found
                /\ trPc' = "run"
           ELSE /\ stack' = <<>>
                /\ emitted' = found
                /\ trPc' = "overflow"
    /\ UNCHANGED <<graph, trObj>>
    /\ UNCHANGED notTraverse

TraverseNext ==
    \/ Tr_Call
    \/ Tr_CallNull
    \/ Tr_Return
    \/ Tr_ArrayItem
    \/ Tr_Object

----------------------------------------------------------------------------
(* Enhanced content script: table extraction *)

\* Cell texts (cell.textContent.trim()).
T_Title ==
    <<"E","m","p","a","t","h"," ","a","n","d"," ","P","s","y","c","h","i","c"," ","A","b","i","l","i","t","i","e","s">>
T_Asin == <<"B","0","B","W","F","C","3","5","5","4">>
T_Money == <<"$","1",",","2","3","4",".","5","0">>
T_TwoAmounts == <<"$","5",".","0","0"," ","$","2",".","5","0">>
T_Count == <<"4","2">>
T_Reads == <<"2","3","8">>
T_KenpReads == <<"K","E","N","P"," ","2","3","8">>
T_KenpLabel == <<"K","E","N","P">>
T_Market == <<"a","m","a","z","o","n",".","c","o",".","u","k">>

CellTexts == { <<>>, T_Title, T_Asin, T_Money, T_TwoAmounts, T_Count, T_Reads,
               T_KenpReads, T_KenpLabel, T_Market }

\* /[A-Z0-9]{10}/: the first run of AsinLen capitals or digits.
IsUpperOrDigit(c) == IsDigit(c) \/ \E i \in 1..26 : UpperChars[i] = c

AsinMatch(text) ==
    LET starts == { i \in 1..(Len(text) - AsinLen + 1) :
                      \A k \in i..(i + AsinLen - 1) : IsUpperOrDigit(text[k]) }
    IN  IF starts = {} THEN <<>>
        ELSE SubSeq(text, SetMin(starts), SetMin(starts) + AsinLen - 1)

\* countryMap in the order of its entries (content.js 492-496).
Enh_countryMap ==
    << <<<<".","c","o","m">>, <<"U","S">>>>,
       <<<<".","c","o",".","u","k">>, <<"U","K">>>>,
       <<<<".","d","e">>, <<"D","E">>>>,
       <<<<".","f","r">>, <<"F","R">>>>,
       <<<<".","i","t">>, <<"I","T">>>>,
       <<<<".","e","s">>, <<"E","S">>>>,
       <<<<".","c","o",".","j","p">>, <<"J","P">>>>,
       <<<<".","c","a">>, <<"C","A">>>>,
       <<<<".","c","o","m",".","a","u">>, <<"A","U">>>>,
       <<<<".","c","o","m",".","b","r">>, <<"B","R">>>>,
       <<<<".","i","n">>, <<"I","N">>>>,
       <<<<".","c","o","m",".","m","x">>, <<"M","X">>>> >>

extractCountryFromMarketplace(marketplace) ==
    LET hits == { i \in DOMAIN Enh_countryMap : Includes(marketplace, Enh_countryMap[i][1]) }
    IN  IF hits = {} THEN <<"U","S">> ELSE Enh_countryMap[SetMin(hits)][2]

Enh_rowStart ==
    [title |-> <<>>, revenue |-> 0, sales |-> 0, kenpReads |-> 0, kenpRoyalties |-> 0,
     asin |-> <<>>, marketplace |-> <<>>, threw |-> FALSE]

\* The callback of cells.forEach (content.js 220-268) on one cell text.  Line
\* 253 reads `kempMatch`, a name that is declared nowhere: evaluating it throws
\* ReferenceError, which ends the loop (threw).
Enh_rowCell(acc, text) ==
    IF acc.threw THEN acc
    ELSE
    LET isTitle == /\ Len(text) > 10
                   /\ ~Includes(text, <<"$">>)
                   /\ ~AllDigits(text)
                   /\ ~Includes(text, <<"K","E","N","P">>)
                   /\ Enh_isLikelyBookTitle(text)
        amounts == { MoneyValue(text, m) : m \in DollarMatches(text) }
        revenue == SetMax(amounts \cup {acc.revenue})
        isSales == AllDigits(text) /\ DigitsValue(text) > 0 /\ DigitsValue(text) < SalesCeiling
        isKenp  == \/ Includes(text, <<"K","E","N","P">>)
                   \/ (AllDigits(text) /\ Len(text) >= 3 /\ DigitsValue(text) > 100)
        isMarket == \/ Includes(text, <<".","c","o","m">>)
                    \/ Includes(text, <<".","c","o",".","u","k">>)
                    \/ Includes(text, <<".","d","e">>)
    IN  [title |-> IF isTitle THEN text ELSE acc.title,
         revenue |-> revenue,
         sales |-> IF isSales THEN JsMax(DigitsValue(text), acc.sales) ELSE acc.sales,
         kenpReads |-> acc.kenpReads,
         kenpRoyalties |-> acc.kenpRoyalties,
         asin |-> IF AsinMatch(text) # <<>> /\ ~Truthy(acc.asin)
                  THEN AsinMatch(text) ELSE acc.asin,
         marketplace |-> IF isMarket THEN text ELSE acc.marketplace,
         threw |-> isKenp /\ FirstDigitRun(text) # <<>>]

RECURSIVE Enh_rowCells(_, _)
Enh_rowCells(cells, n) ==
    IF n = 0 THEN Enh_rowStart ELSE Enh_rowCell(Enh_rowCells(cells, n - 1), cells[n])

NoBook == [title |-> <<>>]

\* The end of extractBookDataFromRow (content.js 270-290) on the values its
\* loop has collected: the record, or NoBook for `return null`.
Enh_rowResult(acc, source) ==
    LET kenpRoyalties == IF acc.kenpReads > 0 /\ acc.kenpRoyalties = 0
                         THEN acc.kenpReads * KenpRateMills ELSE acc.kenpRoyalties
    IN  IF Truthy(acc.title) /\ (acc.revenue > 0 \/ acc.sales > 0 \/ acc.kenpReads > 0)
        THEN [Book(acc.title, acc.asin, acc.revenue, acc.sales, acc.kenpReads,
                   kenpRoyalties, extractCountryFromMarketplace(acc.marketplace), source)
                EXCEPT !.id = <<>>]
        ELSE NoBook

\* extractBookDataFromRow (content.js 210-291) on the texts of a row's cells.
extractBookDataFromRow(cells, source) ==
    LET acc == Enh_rowCells(cells, Len(cells))
    IN  IF acc.threw THEN [threw |-> TRUE, book |-> NoBook]
        ELSE [threw |-> FALSE, book |-> Enh_rowResult(acc, source)]

TablesInit ==
    /\ tblBooks = <<>>
    /\ tblRow = 0
    /\ tblAcc = Enh_rowStart
    /\ tblLeft = 0
    /\ tblPc = "rows"

\* One turn of rows.forEach in extractFromTables (content.js 194-203): the next
\* row of the page has n cells; extractBookDataFromRow is entered when n >= 2.
Tbl_Row(n) ==
    /\ tblPc = "rows"
    /\ tblRow < MaxRows
    /\ tblRow' = tblRow + 1
    /\ IF n >= 2
       THEN /\ tblPc' = "cells"
            /\ tblAcc' = Enh_rowStart
            /\ tblLeft' = n
       ELSE UNCHANGED <<tblPc, tblAcc, tblLeft>>
    /\ UNCHANGED tblBooks
    /\ UNCHANGED notTables

\* One turn of cells.forEach in extractBookDataFromRow on the next cell's text.
\* The ReferenceError of line 253 is caught neither there nor in
\* extractFromTables: it leaves both without a result.
Tbl_Cell(text) ==
    /\ tblPc = "cells"
    /\ tblLeft > 0
    /\ LET acc == Enh_rowCell(tblAcc, text)
       IN  /\ tblAcc' = acc
           /\ IF acc.threw
              THEN /\ tblPc' = "threw"
                   /\ tblLeft' = 0
                   /\ tblBooks' = <<>>
              ELSE /\ tblLeft' = tblLeft - 1
                   /\ UNCHANGED <<tblPc, tblBooks>>
    /\ UNCHANGED tblRow
    /\ UNCHANGED notTables

\* extractBookDataFromRow returns; extractFromTables pushes the record if it
\* has a title (content.js 198-200).
Tbl_RowEnd ==
    /\ tblPc = "cells"
    /\ tblLeft = 0
    /\ LET book == Enh_rowResult(tblAcc, "table")
       IN  tblBooks' = IF Truthy(book.title) THEN Append(tblBooks, book) ELSE tblBooks
    /\ tblPc' = "rows"
    /\ UNCHANGED <<tblRow, tblAcc, tblLeft>>
    /\ UNCHANGED notTables

\* return books (content.js 207)
Tbl_Return ==
    /\ tblPc = "rows"
    /\ tblPc' = "returned"
    /\ UNCHANGED <<tblBooks, tblRow, tblAcc, tblLeft>>
    /\ UNCHANGED notTables

TablesNext ==
    \/ \E n \in 0..MaxCells : Tbl_Row(n)
    \/ \E text \in CellTexts : Tbl_Cell(text)
    \/ Tbl_RowEnd
    \/ Tbl_Return

----------------------------------------------------------------------------
(* Advanced content script: table rows (src/unnamed/part_000 212-381)      *)

\* The characters of [€$£¥₹]; a symbol outside ASCII is written by its name.
CurrencyChars == { "$", "euro", "pound", "yen", "rupee" }

IsCurrency(c) == c \in CurrencyChars

T_Euro == <<"euro"," ","7",".","2","5">>

\* A second title, and two read counts of five digits.
T_Guide ==
    <<"C","r","y","s","t","a","l"," ","H","e","a","l","i","n","g"," ","G","u","i","d","e">>
T_ManyReads == <<"2","0","4","8","0">>
T_FewerReads == <<"1","2","5","0","0">>

Adv_CellTexts == CellTexts \cup { T_Euro, T_Guide, T_ManyReads, T_FewerReads }

Adv_uiKeywords ==
    { <<"d","a","s","h","b","o","a","r","d">>,
      <<"r","e","p","o","r","t">>,
      <<"t","o","t","a","l">>,
      <<"s","u","m","m","a","r","y">>,
      <<"d","a","t","e">>,
      <<"f","i","l","t","e","r">>,
      <<"e","x","p","o","r","t">>,
      <<"v","i","e","w">>,
      <<"d","e","t","a","i","l","s">>,
      <<"r","o","y","a","l","t","i","e","s">>,
      <<"e","a","r","n","i","n","g","s">>,
      <<"s","a","l","e","s">>,
      <<"k","i","n","d","l","e">>,
      <<"a","s","i","n">> }

Adv_isLikelyBookTitle(text) ==
    /\ Truthy(text) /\ Len(text) >= 3 /\ Len(text) <= AdvMaxTitleLen
    /\ ToLowerCase(text) \notin Adv_uiKeywords
    /\ \E i \in 1..Len(text) : IsLetter(text[i])                      \* hasLetters
    /\ ~\A i \in 1..Len(text) : IsDigit(text[i])                      \* notOnlyNumbers
    /\ \A i \in 1..Len(text) : Enh_validChar(text[i])                 \* hasValidChars

\* The sum of the amounts of a set of matches, NaN (Undef) amounts left out.
RECURSIVE SumAmounts(_, _)
SumAmounts(s, ms) ==
    IF ms = {} THEN 0
    ELSE LET m == CHOOSE x \in ms : TRUE
             v == MoneyValue(s, m)
         IN  (IF v = Undef THEN 0 ELSE v) + SumAmounts(s, ms \ {m})

\* The matches of /[€$£¥₹]\s*[\d,]+\.?\d*/g, as DollarMatches gives them; from
\* is the position before the first digit or comma.
CurrencyMatches(s) ==
    { [from |-> j - 1,
       intEnd |-> RunEnd(s, j, IsDigitOrComma),
       to |-> LET e == RunEnd(s, j, IsDigitOrComma)
              IN  IF e < Len(s) /\ s[e + 1] = "." THEN RunEnd(s, e + 2, IsDigit) ELSE e] :
        j \in { RunEnd(s, i + 1, IsSpace) + 1 :
                  i \in { k \in 1..Len(s) :
                            /\ IsCurrency(s[k])
                            /\ RunEnd(s, k + 1, IsSpace) < Len(s)
                            /\ IsDigitOrComma(s[RunEnd(s, k + 1, IsSpace) + 1]) } } }

\* extractMoneyAmount of part_000 (568-581), in thousandths.
Adv_extractMoneyAmount(text) == SumAmounts(text, CurrencyMatches(text))

\* extractMoneyAmount of content.js (481-489), in thousandths.
Enh_extractMoneyAmount(text) == SumAmounts(text, DollarMatches(text))

extractNumberValue(text) ==
    IF FirstDigitRun(text) = <<>> THEN 0 ELSE DigitsValue(FirstDigitRun(text))

Adv_countryMap ==
    << <<<<"a","m","a","z","o","n",".","c","o","m">>, <<"U","S">>>>,
       <<<<"a","m","a","z","o","n",".","c","o",".","u","k">>, <<"U","K">>>>,
       <<<<"a","m","a","z","o","n",".","d","e">>, <<"D","E">>>>,
       <<<<"a","m","a","z","o","n",".","f","r">>, <<"F","R">>>>,
       <<<<"a","m","a","z","o","n",".","i","t">>, <<"I","T">>>>,
       <<<<"a","m","a","z","o","n",".","e","s">>, <<"E","S">>>>,
       <<<<"a","m","a","z","o","n",".","c","a">>, <<"C","A">>>>,
       <<<<"a","m","a","z","o","n",".","c","o","m",".","a","u">>, <<"A","U">>>> >>

extractCountryCode(text) ==
    LET hits == { i \in DOMAIN Adv_countryMap : Includes(text, Adv_countryMap[i][1]) }
    IN  IF hits = {} THEN <<"U","S">> ELSE Adv_countryMap[SetMin(hits)][2]

\* Header texts, lower-cased by extractTableHeaders (part_000 244); <<>> is a
\* header cell without text.
HeaderTexts ==
    { <<>>,
      <<"b","o","o","k"," ","t","i","t","l","e">>,
      <<"a","s","i","n">>,
      <<"k","e","n","p"," ","r","e","a","d">> }

Adv_typeOrder == <<"title", "asin", "revenue", "sales", "kenp", "country">>

\* The branch of createHeaderMap's chain that a header text takes.
Adv_headerType(h) ==
    LET text == ToLowerCase(h)
    IN  IF Includes(text, <<"t","i","t","l","e">>) \/ Includes(text, <<"b","o","o","k">>) \/ Includes(text, <<"n","a","m","e">>) THEN "title"
        ELSE IF Includes(text, <<"a","s","i","n">>) \/ Includes(text, <<"i","d">>) THEN "asin"
        ELSE IF Includes(text, <<"r","o","y","a","l","t">>) \/ Includes(text, <<"r","e","v","e","n","u","e">>) \/ Includes(text, <<"e","a","r","n","i","n","g">>) THEN "revenue"
        ELSE IF Includes(text, <<"s","a","l","e","s">>) \/ Includes(text, <<"u","n","i","t","s">>) \/ Includes(text, <<"s","o","l","d">>) THEN "sales"
        ELSE IF Includes(text, <<"k","e","n","p">>) \/ Includes(text, <<"r","e","a","d">>) THEN "kenp"
        ELSE IF Includes(text, <<"c","o","u","n","t","r","y">>) \/ Includes(text, <<"m","a","r","k","e","t">>) THEN "country"
        ELSE "none"

\* createHeaderMap: for each kind, the column positions mapped to it.
createHeaderMap(headers) ==
    [type \in { Adv_typeOrder[k] : k \in DOMAIN Adv_typeOrder } |->
        { i \in 1..Len(headers) : Adv_headerType(headers[i]) = type }]

\* /\.(com|co\.uk|de|fr|it|es|ca|au)/
Adv_hasMarketDomain(text) ==
    \/ Includes(text, <<".","c","o","m">>)
    \/ Includes(text, <<".","c","o",".","u","k">>)
    \/ Includes(text, <<".","d","e">>)
    \/ Includes(text, <<".","f","r">>)
    \/ Includes(text, <<".","i","t">>)
    \/ Includes(text, <<".","e","s">>)
    \/ Includes(text, <<".","c","a">>)
    \/ Includes(text, <<".","a","u">>)

identifyCellType(text, index, headerMap) ==
    LET hits == { k \in DOMAIN Adv_typeOrder : index \in headerMap[Adv_typeOrder[k]] }
    IN  IF hits # {} THEN Adv_typeOrder[SetMin(hits)]
        ELSE IF Adv_isLikelyBookTitle(text) THEN "title"
        ELSE IF AsinMatch(text) # <<>> THEN "asin"
        ELSE IF \E i \in 1..Len(text) : IsCurrency(text[i]) THEN "revenue"
        ELSE IF AllDigits(text) /\ Len(text) <= 4 /\ DigitsValue(text) < SalesCeiling
             THEN "sales"
        ELSE IF (AllDigits(text) /\ Len(text) >= 3) \/ Includes(text, <<"K","E","N","P">>)
             THEN "kenp"
        ELSE IF Adv_hasMarketDomain(text) THEN "country"
        ELSE "unknown"

\* bookData as extractBookFromTableRow starts it (252-269); the per-format
\* counters and the currency, which no step of the row changes, are left out.
Adv_rowStart == Book(<<>>, <<>>, 0, 0, 0, 0, <<>>, "table")

\* The callback of cells.forEach (274-321) on the cell at position index.
Adv_rowCell(bookData, text, index, headerMap) ==
    LET cellType == identifyCellType(text, index, headerMap)
        revenue  == Adv_extractMoneyAmount(text)
        number   == extractNumberValue(text)
    IN  CASE cellType = "title" ->
               IF Adv_isLikelyBookTitle(text) THEN [bookData EXCEPT !.title = text]
               ELSE bookData
          [] cellType = "asin" ->
               IF AsinMatch(text) # <<>> THEN [bookData EXCEPT !.asin = AsinMatch(text)]
               ELSE bookData
          [] cellType = "revenue" ->
               IF revenue > 0
               THEN [bookData EXCEPT !.totalRoyalties = JsMax(bookData.totalRoyalties, revenue)]
               ELSE bookData
          [] cellType = "sales" ->
               IF number > 0 /\ number < SalesCeiling
               THEN [bookData EXCEPT !.totalSales = JsMax(bookData.totalSales, number)]
               ELSE bookData
          [] cellType = "kenp" ->
               IF number > 0
               THEN [bookData EXCEPT !.kenpReads = JsMax(bookData.kenpReads, number),
                                     !.kenpRoyalties = number * KenpRateMills]
               ELSE bookData
          [] cellType = "country" ->
               [bookData EXCEPT !.country = extractCountryCode(text)]
          [] OTHER -> bookData

\* The end of extractBookFromTableRow (324-328): the enhanced record, or
\* NoBook for `return null`.
Adv_rowResult(bookData, rnd) ==
    IF Truthy(bookData.title)
       /\ (bookData.totalRoyalties > 0 \/ bookData.totalSales > 0 \/ bookData.kenpReads > 0)
    THEN enhanceBookData(bookData, rnd)
    ELSE NoBook

AdvRowInit ==
    /\ advHeaders = <<>>
    /\ advBook = Adv_rowStart
    /\ advCells = <<>>
    /\ advTypes = <<>>
    /\ advLeft = 0
    /\ advResult = NoBook
    /\ advPc = "table"

\* extractFromKDPTables (218-229) reaches a row of n cells of a table whose
\* header row is headers; rows of fewer than 3 cells are passed over.
Adv_Row(headers, n) ==
    /\ advPc = "table"
    /\ n >= MinCells
    /\ advHeaders' = headers
    /\ advBook' = Adv_rowStart
    /\ advCells' = <<>>
    /\ advTypes' = <<>>
    /\ advLeft' = n
    /\ advPc' = "cells"
    /\ UNCHANGED advResult
    /\ UNCHANGED notAdvRow

\* One turn of cells.forEach in extractBookFromTableRow on the next cell's text.
Adv_Cell(text) ==
    /\ advPc = "cells"
    /\ advLeft > 0
    /\ LET index == Len(advCells) + 1
           headerMap == createHeaderMap(advHeaders)
       IN  /\ advBook' = Adv_rowCell(advBook, text, index, headerMap)
           /\ advTypes' = Append(advTypes, identifyCellType(text, index, headerMap))
    /\ advCells' = Append(advCells, text)
    /\ advLeft' = advLeft - 1
    /\ UNCHANGED <<advHeaders, advResult, advPc>>
    /\ UNCHANGED notAdvRow

\* extractBookFromTableRow returns.
Adv_RowEnd(rnd) ==
    /\ advPc = "cells"
    /\ advLeft = 0
    /\ advResult' = Adv_rowResult(advBook, rnd)
    /\ advPc' = "returned"
    /\ UNCHANGED <<advHeaders, advBook, advCells, advTypes, advLeft>>
    /\ UNCHANGED notAdvRow

AdvRowNext ==
    \/ \E n \in 0..MaxCells :
         \E headers \in UNION { [1..k -> HeaderTexts] : k \in 0..MaxHeaders } :
           Adv_Row(headers, n)
    \/ \E text \in Adv_CellTexts : Adv_Cell(text)
    \/ \E rnd \in RandomIds : Adv_RowEnd(rnd)

----------------------------------------------------------------------------
(* Dashboard server, src/dashboard_server.js: one user's data                *)

\* Strings the records carry.
N_Empath == <<"E","m","p","a","t","h">>
N_Volume ==
    <<"E","m","p","a","t","h"," ","a","n","d"," ","P","s","y","c","h","i","c"," ","A","b","i","l","i","t","i","e","s"," ","V","o","l"," ","2">>
N_Campaign ==
    <<"E","m","p","a","t","h"," ","a","n","d"," ","P","s","y","c","h","i","c"," ","A","b","i","l","i","t","i","e","s"," ","-"," ","C","a","m","p","a","i","g","n">>
N_Psychic == <<"P","s","y","c","h","i","c">>

\* Sales records of a KDP payload (title, royalty, unitsSold); money and
\* rates in thousandths.
KdpRecs ==
    { [title |-> N_Empath, royalty |-> 10000, unitsSold |-> 2],
      [title |-> N_Volume, royalty |-> Undef, unitsSold |-> 0],
      [title |-> T_Title,  royalty |-> 10000, unitsSold |-> Undef],
      [title |-> <<>>,     royalty |-> 5000,  unitsSold |-> 1] }

\* Campaign records of an ads payload.
AdRecs ==
    { [campaignName |-> N_Campaign, spend |-> 3000,  sales |-> 1,     acos |-> 300],
      [campaignName |-> N_Psychic,  spend |-> 1000,  sales |-> 2,     acos |-> 500],
      [campaignName |-> <<>>,       spend |-> 2000,  sales |-> 1,     acos |-> 400],
      [campaignName |-> N_Campaign, spend |-> Undef, sales |-> Undef, acos |-> Undef] }

\* The data of a sync request: null, an object without the list ("none"), or
\* an object with salesData (type kdp) or campaigns (type ads) in `list`.
NullData == [kind |-> "null", list |-> <<>>]
NoList == [kind |-> "none", list |-> <<>>]
WithList(l) == [kind |-> "list", list |-> l]

KdpPayloads ==
    { NullData, NoList }
      \cup { WithList(<<r>>) : r \in KdpRecs }
      \cup { WithList(<< [title |-> N_Empath, royalty |-> 10000, unitsSold |-> 2],
                         [title |-> T_Title, royalty |-> 10000, unitsSold |-> Undef] >>) }

\* The data of the payloads sendDataToDashboard of the simple background
\* script posts with the type 'background_sync' (background.js 318-324): the
\* extraction message's data or {type: 'amazon_ads', data, extractedAt},
\* objects with neither salesData nor campaigns.
BackgroundPayloads == { NoList }

AdsPayloads ==
    { NullData, NoList }
      \cup { WithList(<<r>>) : r \in AdRecs }
      \cup { WithList(<< [campaignName |-> N_Campaign, spend |-> 3000, sales |-> 1, acos |-> 300],
                         [campaignName |-> N_Psychic, spend |-> 1000, sales |-> 2, acos |-> 500] >>) }

\* array.slice(0, n): the first n entries kept, not the last.
SliceFirst(q, n) == IF Len(q) > n THEN SubSeq(q, 1, n) ELSE q

\* array.slice(-n)
SliceLast(q, n) == IF Len(q) > n THEN SubSeq(q, Len(q) - n + 1, Len(q)) ELSE q

\* String.prototype.substring(0, n)
Substring0(str, n) == IF Len(str) > n THEN SubSeq(str, 1, n) ELSE str

\* The flattening loops of processUserData (324-347): the records of every
\* entry whose data has the list.
RECURSIVE Flatten(_)
Flatten(entries) ==
    IF entries = <<>> THEN <<>>
    ELSE Flatten(SubSeq(entries, 1, Len(entries) - 1))
           \o (IF entries[Len(entries)].kind = "list" THEN entries[Len(entries)].list
               ELSE <<>>)

\* The filter of processUserData without substring(0, 20).
Ds_matches_WholeNames(ad, kdp) ==
    /\ Truthy(ad.campaignName)
    /\ Truthy(kdp.title)
    /\ \/ Includes(ToLowerCase(ad.campaignName), ToLowerCase(kdp.title))
       \/ Includes(ToLowerCase(kdp.title), ToLowerCase(ad.campaignName))

\* The filter of processUserData (351-355).
Ds_matches(ad, kdp) ==
    /\ Truthy(ad.campaignName)
    /\ Truthy(kdp.title)
    /\ \/ Includes(ToLowerCase(ad.campaignName),
                   ToLowerCase(Substring0(kdp.title, MatchPrefixLen)))
       \/ Includes(ToLowerCase(kdp.title),
                   ToLowerCase(Substring0(ad.campaignName, MatchPrefixLen)))

\* matchingAds cut down to the first campaign that passes the filter.
Ds_matchingAds_FirstOnly(kdp, processedAds) ==
    LET ms == { j \in DOMAIN processedAds : Ds_matches(processedAds[j], kdp) }
    IN  IF ms = {} THEN {} ELSE { SetMin(ms) }

\* matchingAds, as the positions in processedAds that pass the filter.
Ds_matchingAds(kdp, processedAds) ==
    { j \in DOMAIN processedAds : Ds_matches(processedAds[j], kdp) }

\* array.reduce((sum, x) => sum + f(x), 0) over the positions js of q.
RECURSIVE SumOver(_, _, _)
SumOver(q, js, field) ==
    IF js = {} THEN 0
    ELSE LET j == CHOOSE x \in js : TRUE
         IN  JsNum(q[j][field]) + SumOver(q, js \ {j}, field)

\* One combined record without the subtraction of the ad spend.
Ds_combine_GrossProfit(kdp, processedAds) ==
    LET ms == Ds_matchingAds(kdp, processedAds)
    IN  [title |-> kdp.title,
         unitsSold |-> IF JsNum(kdp.unitsSold) = 0 THEN 1 ELSE kdp.unitsSold,
         royalty |-> JsNum(kdp.royalty),
         adSpend |-> SumOver(processedAds, ms, "spend"),
         adSales |-> SumOver(processedAds, ms, "sales"),
         acos |-> IF ms # {}
                  THEN [num |-> SumOver(processedAds, ms, "acos"), den |-> Cardinality(ms)]
                  ELSE [num |-> 0, den |-> 1],
         netProfit |-> JsNum(kdp.royalty)]

\* One combined record (350-378).  acos is the quotient num / den.
Ds_combine(kdp, processedAds) ==
    LET ms == Ds_matchingAds(kdp, processedAds)
        totalAdSpend == SumOver(processedAds, ms, "spend")
    IN  [title |-> kdp.title,
         unitsSold |-> IF JsNum(kdp.unitsSold) = 0 THEN 1 ELSE kdp.unitsSold,
         royalty |-> JsNum(kdp.royalty),
         adSpend |-> totalAdSpend,
         adSales |-> SumOver(processedAds, ms, "sales"),
         acos |-> IF ms # {}
                  THEN [num |-> SumOver(processedAds, ms, "acos"), den |-> Cardinality(ms)]
                  ELSE [num |-> 0, den |-> 1],
         netProfit |-> JsNum(kdp.royalty) - totalAdSpend]

\* processedKdp.forEach without its push for records that match no campaign.
Ds_combineAll_MatchedOnly(processedKdp, processedAds) ==
    LET all == [i \in DOMAIN processedKdp |-> Ds_combine(processedKdp[i], processedAds)]
        Matched(i) == Ds_matchingAds(processedKdp[i], processedAds) # {}
        F[n \in 0..Len(all)] ==
            IF n = 0 THEN <<>>
            ELSE IF Matched(n) THEN Append(F[n - 1], all[n]) ELSE F[n - 1]
    IN  F[Len(all)]

\* processedKdp.forEach (350-378)
Ds_combineAll(processedKdp, processedAds) ==
    [i \in DOMAIN processedKdp |-> Ds_combine(processedKdp[i], processedAds)]

processUserData(kdpData, adsData) ==
    LET processedKdp == Flatten(kdpData)
        processedAds == Flatten(adsData)
        combinedData == Ds_combineAll(processedKdp, processedAds)
    IN  [combinedData |-> combinedData,
         kdpData |-> processedKdp,
         adsData |-> processedAds,
         summary |-> [totalRevenue |-> SumOver(combinedData, DOMAIN combinedData, "royalty"),
                      totalSpend   |-> SumOver(combinedData, DOMAIN combinedData, "adSpend"),
                      totalOrders  |-> SumOver(combinedData, DOMAIN combinedData, "unitsSold")]]

NoOutput ==
    [combinedData |-> <<>>, kdpData |-> <<>>, adsData |-> <<>>,
     summary |-> [totalRevenue |-> 0, totalSpend |-> 0, totalOrders |-> 0]]

DsInit ==
    /\ dsUser = FALSE
    /\ dsKdp = <<>>
    /\ dsAds = <<>>
    /\ dsLog = <<>>
    /\ dsStatus = 0
    /\ dsOut = NoOutput
    /\ dsAsked = FALSE
    /\ dsMatched = <<>>

\* POST /api/sync (39-120) with the body {type, data}.  With data null the
\* entry is stored and lastSync set before data.salesData throws in the log
\* push (95), and the catch answers 500.
Ds_Sync(type, data) ==
    /\ ~dsAsked
    /\ Len(dsKdp) + Len(dsAds) < MaxSyncs
    /\ Len(dsLog) < MaxSyncs
    /\ dsUser' = TRUE
    /\ dsKdp' = IF type = "kdp" THEN SliceLast(Append(dsKdp, data), DsEntryCap) ELSE dsKdp
    /\ dsAds' = IF type = "ads" THEN SliceLast(Append(dsAds, data), DsEntryCap) ELSE dsAds
    /\ IF data.kind = "null"
       THEN /\ dsLog' = dsLog
            /\ dsStatus' = 500
       ELSE /\ dsLog' = SliceLast(Append(dsLog,
                            [type |-> type,
                             recordCount |-> IF data.kind = "list" THEN Len(data.list) ELSE 1]),
                            DsLogCap)
            /\ dsStatus' = 200
    /\ UNCHANGED <<dsOut, dsAsked, dsMatched>>
    /\ UNCHANGED notDs

\* POST /api/sync (39-120) with a body that has no email: hashEmail raises
\* on email.toLowerCase() (45, 314) before anything is stored, and the catch
\* answers 500.
Ds_SyncNoEmail ==
    /\ ~dsAsked
    /\ dsStatus' = 500
    /\ UNCHANGED <<dsUser, dsKdp, dsAds, dsLog, dsOut, dsAsked, dsMatched>>
    /\ UNCHANGED notDs

\* POST /api/dashboard-data (123-160) of a user who is not known.
Ds_DashboardDataNoUser ==
    /\ ~dsUser
    /\ ~dsAsked
    /\ dsStatus' = 404
    /\ dsAsked' = TRUE
    /\ UNCHANGED <<dsUser, dsKdp, dsAds, dsLog, dsOut, dsMatched>>
    /\ UNCHANGED notDs

\* POST /api/dashboard-data (123-160) of the user.
Ds_DashboardData ==
    /\ dsUser
    /\ ~dsAsked
    /\ dsOut' = processUserData(dsKdp, dsAds)
    /\ dsMatched' = [i \in DOMAIN Flatten(dsKdp) |->
                        Ds_matchingAds(Flatten(dsKdp)[i], Flatten(dsAds))]
    /\ dsStatus' = 200
    /\ dsAsked' = TRUE
    /\ UNCHANGED <<dsUser, dsKdp, dsAds, dsLog>>
    /\ UNCHANGED notDs

DsNext ==
    \/ \E data \in KdpPayloads : Ds_Sync("kdp", data)
    \/ \E data \in AdsPayloads : Ds_Sync("ads", data)
    \/ \E data \in BackgroundPayloads : Ds_Sync("background_sync", data)
    \/ Ds_SyncNoEmail
    \/ Ds_DashboardDataNoUser
    \/ Ds_DashboardData

----------------------------------------------------------------------------
(* Enhanced content script: the runs of performEnhancedExtraction *)

ExtIds == 1..MaxExtCalls

\* performEnhancedExtraction without its guard.
Ext_rejects_Never(inProgress) == FALSE

\* `if (extractionInProgress) return { success: false, message: 'Extraction
\* already in progress' }` (content.js 111)
Ext_rejects(inProgress) == inProgress

\* The flag reset at the end of the try block instead of in a finally block.
Ext_flagAfterRun_TryOnly(answer) == answer = "failed"

\* finally { extractionInProgress = false } (content.js 180-182): the flag
\* after a run that ends with the given answer.
Ext_flagAfterRun(answer) == FALSE

ExtInit ==
    /\ extractionInProgress = FALSE
    /\ extCalls = [c \in ExtIds |-> [pc |-> "idle", answer |-> "none"]]

\* performEnhancedExtraction from its call to its first await (content.js
\* 111-131).  A call during a run is answered at once.  Otherwise the flag is
\* set and methods 1 and 2 run; threw: extractFromTables raised (the
\* ReferenceError of line 253), so the catch and finally blocks run.
Ext_begin(c, threw) ==
    IF Ext_rejects(extractionInProgress)
    THEN /\ extCalls' = [extCalls EXCEPT ![c] = [pc |-> "settled", answer |-> "inProgress"]]
         /\ UNCHANGED extractionInProgress
    ELSE IF threw
         THEN /\ extCalls' = [extCalls EXCEPT ![c] = [pc |-> "settled", answer |-> "failed"]]
              /\ extractionInProgress' = Ext_flagAfterRun("failed")
         ELSE /\ extCalls' = [extCalls EXCEPT ![c] = [pc |-> "sections", answer |-> "none"]]
              /\ extractionInProgress' = TRUE

\* onMessage 'extractData' / 'forceSync' (content.js 25-31)
Ext_Message(c, threw) ==
    /\ extCalls[c].pc = "idle"
    /\ Ext_begin(c, threw)
    /\ UNCHANGED notExt

\* The interval timer of setupReportsExtraction (content.js 61-65)
Ext_Interval(c, threw) ==
    /\ extCalls[c].pc = "idle"
    /\ ~extractionInProgress
    /\ Ext_begin(c, threw)
    /\ UNCHANGED notExt

\* The mutation observer sees new content and sets a timeout (content.js 98-102)
Ext_Mutation(c) ==
    /\ extCalls[c].pc = "idle"
    /\ ~extractionInProgress
    /\ extCalls' = [extCalls EXCEPT ![c].pc = "scheduled"]
    /\ UNCHANGED extractionInProgress
    /\ UNCHANGED notExt

\* The observer's timeout fires (content.js 99-101)
Ext_Timeout(c, threw) ==
    /\ extCalls[c].pc = "scheduled"
    /\ Ext_begin(c, threw)
    /\ UNCHANGED notExt

\* `await extractFromReportsSections()` resolves; method 4 runs and
\* extractFromReportViews is awaited (content.js 131-142).
Ext_Sections(c) ==
    /\ extCalls[c].pc = "sections"
    /\ extCalls' = [extCalls EXCEPT ![c].pc = "views"]
    /\ UNCHANGED extractionInProgress
    /\ UNCHANGED notExt

\* `await extractFromReportViews()` resolves; the books are deduplicated and
\* the run returns (content.js 142-182).  found: processedBooks.length > 0.
Ext_Views(c, found) ==
    /\ extCalls[c].pc = "views"
    /\ LET answer == IF found THEN "success" ELSE "noBooks"
       IN  /\ extCalls' = [extCalls EXCEPT ![c] = [pc |-> "settled", answer |-> answer]]
           /\ extractionInProgress' = Ext_flagAfterRun(answer)
    /\ UNCHANGED notExt

ExtNext ==
    \/ \E c \in ExtIds, threw \in BOOLEAN : Ext_Message(c, threw)
    \/ \E c \in ExtIds, threw \in BOOLEAN : Ext_Interval(c, threw)
    \/ \E c \in ExtIds : Ext_Mutation(c)
    \/ \E c \in ExtIds, threw \in BOOLEAN : Ext_Timeout(c, threw)
    \/ \E c \in ExtIds : Ext_Sections(c)
    \/ \E c \in ExtIds, found \in BOOLEAN : Ext_Views(c, found)

----------------------------------------------------------------------------
(* Advanced background service, src/unnamed/part_001: performScheduledSync *)

SyncIds == 1..MaxSyncCalls

\* performScheduledSync without its guard.
Sync_skips_Never(inProgress) == FALSE

\* `if (backgroundState.syncInProgress) { ...; return; }` (part_001 264-267)
Sync_skips(inProgress) == inProgress

\* finally { backgroundState.syncInProgress = false } (part_001 336-338): the
\* flag after a run that ends with the given outcome.
Sync_flagAfterRun(outcome) == FALSE

SyncInit ==
    /\ syncInProgress = FALSE
    /\ retryCount = 0
    /\ retryTimers = 0
    /\ syncCalls = [c \in SyncIds |-> [pc |-> "idle", outcome |-> "none",
                                       tabs |-> 0, books |-> FALSE]]

\* performScheduledSync from its call to its first await (part_001 264-298):
\* openTabs is openKDPTabs.size; with no open tab performBackgroundAPISync is
\* awaited.
Sync_begin(c, openTabs) ==
    IF Sync_skips(syncInProgress)
    THEN /\ syncCalls' = [syncCalls EXCEPT ![c].pc = "settled", ![c].outcome = "skipped"]
         /\ UNCHANGED syncInProgress
    ELSE /\ syncCalls' = [syncCalls EXCEPT ![c].pc = IF openTabs > 0 THEN "tabs" ELSE "api",
                                           ![c].tabs = openTabs]
         /\ syncInProgress' = TRUE

\* The try block ran to its end (part_001 310-322), then the finally block.
Sync_complete(c) ==
    /\ syncCalls' = [syncCalls EXCEPT ![c].pc = "settled", ![c].outcome = "completed"]
    /\ retryCount' = 0
    /\ syncInProgress' = Sync_flagAfterRun("completed")
    /\ UNCHANGED retryTimers

\* The catch block (part_001 323-334), then the finally block.
Sync_fail(c) ==
    /\ syncCalls' = [syncCalls EXCEPT ![c].pc = "settled", ![c].outcome = "failed"]
    /\ retryCount' = retryCount + 1
    /\ retryTimers' = IF retryCount + 1 < MaxRetryAttempts
                      THEN retryTimers + 1 ELSE retryTimers
    /\ syncInProgress' = Sync_flagAfterRun("failed")

\* The interval timer of startAutoSync (part_001 243-247)
Sync_Interval(c, openTabs) ==
    /\ syncCalls[c].pc = "idle"
    /\ ~syncInProgress
    /\ Sync_begin(c, openTabs)
    /\ UNCHANGED <<retryCount, retryTimers>>
    /\ UNCHANGED notSync

\* onMessage 'forceSyncNow' (part_001 560-566)
Sync_Force(c, openTabs) ==
    /\ syncCalls[c].pc = "idle"
    /\ Sync_begin(c, openTabs)
    /\ UNCHANGED <<retryCount, retryTimers>>
    /\ UNCHANGED notSync

\* A retry timeout set by a failed run fires (part_001 331-333)
Sync_RetryTimer(c, openTabs) ==
    /\ syncCalls[c].pc = "idle"
    /\ retryTimers > 0
    /\ retryTimers' = retryTimers - 1
    /\ Sync_begin(c, openTabs)
    /\ UNCHANGED retryCount
    /\ UNCHANGED notSync

\* `await triggerTabSync(tabId)` resolves (part_001 282-297; triggerTabSync
\* catches its errors); gotBooks: the tab answered with books.  After the
\* last tab the data is saved if there is any (part_001 305-307).
Sync_Tab(c, gotBooks) ==
    /\ syncCalls[c].pc = "tabs"
    /\ LET found == syncCalls[c].books \/ gotBooks
       IN  IF syncCalls[c].tabs > 1
           THEN /\ syncCalls' = [syncCalls EXCEPT ![c].tabs = @ - 1, ![c].books = found]
                /\ UNCHANGED <<syncInProgress, retryCount, retryTimers>>
           ELSE IF found
                THEN /\ syncCalls' = [syncCalls EXCEPT ![c].tabs = 0, ![c].books = TRUE,
                                                       ![c].pc = "save"]
                     /\ UNCHANGED <<syncInProgress, retryCount, retryTimers>>
                ELSE Sync_complete(c)
    /\ UNCHANGED notSync

\* `await performBackgroundAPISync()` resolves (part_001 300-302; it catches
\* its errors and its result is not used).
Sync_Api(c) ==
    /\ syncCalls[c].pc = "api"
    /\ Sync_complete(c)
    /\ UNCHANGED notSync

\* `await saveExtractedData(results.totalData)` settles (part_001 305-307);
\* saveExtractedData rethrows what it catches (668-671).
Sync_Save(c, saved) ==
    /\ syncCalls[c].pc = "save"
    /\ IF saved THEN Sync_complete(c) ELSE Sync_fail(c)
    /\ UNCHANGED notSync

SyncNext ==
    \/ \E c \in SyncIds, n \in 0..MaxTabs : Sync_Interval(c, n)
    \/ \E c \in SyncIds, n \in 0..MaxTabs : Sync_Force(c, n)
    \/ \E c \in SyncIds, n \in 0..MaxTabs : Sync_RetryTimer(c, n)
    \/ \E c \in SyncIds, gotBooks \in BOOLEAN : Sync_Tab(c, gotBooks)
    \/ \E c \in SyncIds : Sync_Api(c)
    \/ \E c \in SyncIds, saved \in BOOLEAN : Sync_Save(c, saved)

\* The content script and the background service, each running its calls.
RunsNext ==
    \/ ExtNext
    \/ SyncNext

----------------------------------------------------------------------------
(* Cloud server, src/unnamed/part_002: the books of all users *)

SrvUserIds == { "userA", "userB" }

\* The id and totalRoyalties (in thousandths) of the book performFullSync
\* stores (part_002 527-547).
MockBookId == <<"B","0","B","W","F","C","3","5","5","4">>
MockRoyalties == 980

\* A book of /api/extension/data's body.data.books: one with the ASIN of the
\* server's own record, one with another ASIN, one with neither asin nor id.
SrvUploads ==
    { [asin |-> MockBookId, totalRoyalties |-> 5000],
      [asin |-> <<"B","2">>, totalRoyalties |-> 5000],
      [asin |-> <<>>,        totalRoyalties |-> 5000] }

\* crypto.randomUUID(): the n-th value it gives.
SrvUuid(n) == <<"u","u","i","d", n>>

SrvInit ==
    /\ srvUsers = {}
    /\ srvBooks = <<>>
    /\ srvUuids = 0
    /\ srvLast = [op |-> "none", user |-> "none"]
    /\ srvOut = [user |-> "none", books |-> {}]

\* The records /api/data selects for userId (part_002 251).
Srv_userBooks(userId) ==
    { MapGet(srvBooks, srvBooks[i].key) : i \in { j \in DOMAIN srvBooks : srvBooks[j].rec.userId = userId } }

\* performFullSync(userId) for a user with kdpCredentials (part_002 510-558):
\* appData.books.set(book.id, book) of the one book it has.
Srv_performFullSync(bks, userId) ==
    MapSet(bks, MockBookId,
           [asin |-> MockBookId, totalRoyalties |-> MockRoyalties,
            userId |-> userId, source |-> "kdp"])

\* POST /api/setup (part_002 150-228): the user is stored and synced.
Srv_Setup(userId) ==
    /\ srvUsers' = srvUsers \cup {userId}
    /\ srvBooks' = Srv_performFullSync(srvBooks, userId)
    /\ srvLast' = [op |-> "setup", user |-> userId]
    /\ UNCHANGED <<srvUuids, srvOut>>
    /\ UNCHANGED notSrv

\* POST /api/sync with a valid session (part_002 286-330)
Srv_Sync(userId) ==
    /\ userId \in srvUsers
    /\ srvBooks' = Srv_performFullSync(srvBooks, userId)
    /\ srvLast' = [op |-> "sync", user |-> userId]
    /\ UNCHANGED <<srvUsers, srvUuids, srvOut>>
    /\ UNCHANGED notSrv

\* One turn of the scheduled job's loop over the users (part_002 596-614)
Srv_Cron(userId) ==
    /\ userId \in srvUsers
    /\ srvBooks' = Srv_performFullSync(srvBooks, userId)
    /\ srvLast' = [op |-> "cron", user |-> userId]
    /\ UNCHANGED <<srvUsers, srvUuids, srvOut>>
    /\ UNCHANGED notSrv

\* POST /api/extension/data with one book (part_002 332-376); userId is the
\* body's userId, "none" when it has none.  No session is asked for.
Srv_ExtensionData(userId, book) ==
    /\ Truthy(book.asin) \/ srvUuids < MaxUuids
    /\ LET bookId == IF Truthy(book.asin) THEN book.asin ELSE SrvUuid(srvUuids + 1)
       IN  srvBooks' = MapSet(srvBooks, bookId,
                              [asin |-> book.asin, totalRoyalties |-> book.totalRoyalties,
                               userId |-> IF userId = "none" THEN "extension" ELSE userId,
                               source |-> "extension"])
    /\ srvUuids' = IF Truthy(book.asin) THEN srvUuids ELSE srvUuids + 1
    /\ srvLast' = [op |-> "upload", user |-> userId]
    /\ UNCHANGED <<srvUsers, srvOut>>
    /\ UNCHANGED notSrv

\* GET /api/data with a valid session (part_002 231-283): data.books
Srv_Data(userId) ==
    /\ userId \in srvUsers
    /\ srvOut' = [user |-> userId, books |-> Srv_userBooks(userId)]
    /\ srvLast' = [op |-> "data", user |-> userId]
    /\ UNCHANGED <<srvUsers, srvBooks, srvUuids>>
    /\ UNCHANGED notSrv

SrvNext ==
    \/ \E userId \in SrvUserIds : Srv_Setup(userId)
    \/ \E userId \in SrvUserIds : Srv_Sync(userId)
    \/ \E userId \in SrvUserIds : Srv_Cron(userId)
    \/ \E userId \in SrvUserIds \cup {"none"}, book \in SrvUploads : Srv_ExtensionData(userId, book)
    \/ \E userId \in SrvUserIds : Srv_Data(userId)

----------------------------------------------------------------------------
(* Simple background script, src/kdp-extension/background.js: the sync timer *)

\* autoSyncInterval is 0 for null, or the id setInterval returned; live is the
\* set of ids of the interval timers that have not been cleared.
SbInit ==
    /\ sb = [isAutoSyncEnabled |-> FALSE, autoSyncInterval |-> 0, live |-> {},
             pendingGets |-> 0, timers |-> 0]
    /\ sbStored = "unset"
    /\ sbLoads = 0

\* startContinuousSync up to chrome.storage.sync.get (background.js 94-103):
\* the callback that creates the timer is pending.
startContinuousSync(s) ==
    [s EXCEPT !.live = IF s.autoSyncInterval # 0 THEN s.live \ {s.autoSyncInterval} ELSE s.live,
              !.isAutoSyncEnabled = TRUE,
              !.pendingGets = s.pendingGets + 1]

\* stopContinuousSync (background.js 121-127)
stopContinuousSync(s) ==
    [s EXCEPT !.live = IF s.autoSyncInterval # 0 THEN s.live \ {s.autoSyncInterval} ELSE s.live,
              !.autoSyncInterval = 0,
              !.isAutoSyncEnabled = FALSE]

\* toggleContinuousSync (background.js 81-92), after its assignment of
\* isAutoSyncEnabled.
toggleContinuousSync(s, enabled) ==
    IF enabled THEN startContinuousSync([s EXCEPT !.isAutoSyncEnabled = TRUE])
    ELSE stopContinuousSync([s EXCEPT !.isAutoSyncEnabled = FALSE])

\* A call of startContinuousSync is within the bound on the timers created.
Sb_roomToStart == sb.timers + sb.pendingGets < MaxTimers

\* onInstalled (background.js 8-21)
Sb_Installed ==
    /\ Sb_roomToStart
    /\ sbStored' = "true"
    /\ sb' = startContinuousSync(sb)
    /\ UNCHANGED sbLoads
    /\ UNCHANGED notSb

\* onStartup: loadSettingsAndStartSync awaits chrome.storage.sync.get
\* (background.js 24-31)
Sb_Startup ==
    /\ sbLoads < MaxTimers
    /\ sbLoads' = sbLoads + 1
    /\ UNCHANGED <<sb, sbStored>>
    /\ UNCHANGED notSb

\* The settings arrive: `if (settings.autoSyncEnabled !== false)`
\* (background.js 32-34)
Sb_SettingsLoaded ==
    /\ sbLoads > 0
    /\ sbStored # "false" => Sb_roomToStart
    /\ sbLoads' = sbLoads - 1
    /\ sb' = IF sbStored # "false" THEN startContinuousSync(sb) ELSE sb
    /\ UNCHANGED sbStored
    /\ UNCHANGED notSb

\* onMessage 'toggleAutoSync' (background.js 42-46)
Sb_Toggle(enabled) ==
    /\ enabled => Sb_roomToStart
    /\ sbStored' = IF enabled THEN "true" ELSE "false"
    /\ sb' = toggleContinuousSync(sb, enabled)
    /\ UNCHANGED sbLoads
    /\ UNCHANGED notSb

\* onMessage 'setSyncInterval': setSyncInterval (background.js 48-52, 129-136)
Sb_SetSyncInterval ==
    /\ sb.isAutoSyncEnabled => Sb_roomToStart
    /\ sb' = IF sb.isAutoSyncEnabled THEN startContinuousSync(sb) ELSE sb
    /\ UNCHANGED <<sbStored, sbLoads>>
    /\ UNCHANGED notSb

\* The callback of chrome.storage.sync.get in startContinuousSync runs
\* (background.js 103-118): autoSyncInterval = setInterval(...).
Sb_GetCallback ==
    /\ sb.pendingGets > 0
    /\ sb' = [sb EXCEPT !.pendingGets = sb.pendingGets - 1,
                        !.timers = sb.timers + 1,
                        !.autoSyncInterval = sb.timers + 1,
                        !.live = sb.live \cup {sb.timers + 1}]
    /\ UNCHANGED <<sbStored, sbLoads>>
    /\ UNCHANGED notSb

SbNext ==
    \/ Sb_Installed
    \/ Sb_Startup
    \/ Sb_SettingsLoaded
    \/ \E enabled \in BOOLEAN : Sb_Toggle(enabled)
    \/ Sb_SetSyncInterval
    \/ Sb_GetCallback

----------------------------------------------------------------------------
(* Advanced content script, src/unnamed/part_000: the retry counter of
   performKDPExtraction *)

KdpIds == 1..MaxKdpCalls

\* CONFIG.MAX_RETRY_ATTEMPTS of the content script (part_000 8)
Kdp_MaxRetryAttempts == 3

\* extractionState (part_000 15-24): isActive, retryCount, intervalId set;
\* timeouts: the pending timeouts whose callback calls performKDPExtraction.
KdpInit ==
    /\ kdpState = [isActive |-> FALSE, retryCount |-> 0, intervalId |-> FALSE, timeouts |-> 0]
    /\ kdpCalls = [c \in KdpIds |-> [pc |-> "idle", from |-> "none",
                                     performed |-> FALSE, answer |-> "none"]]

\* `if (extractionState.isActive && extractionState.retryCount >=
\* CONFIG.MAX_RETRY_ATTEMPTS) return;` (part_000 147-150)
Kdp_returnsEarly(s) == s.isActive /\ s.retryCount >= Kdp_MaxRetryAttempts

\* sendResponse of the 'extractData' listener (part_000 824-828): a fulfilled
\* promise, whatever its value, is answered success: true, a rejected one
\* success: false.  The other callers drop the promise.
Kdp_answer(from, fulfilled) ==
    IF from # "message" THEN "none" ELSE IF fulfilled THEN "success" ELSE "failure"

\* The calls are numbered in the order they are made.
Kdp_next(c) == kdpCalls[c].pc = "idle" /\ \A d \in KdpIds : d < c => kdpCalls[d].pc # "idle"

\* performKDPExtraction from its call to `await sendDataToDashboard` or to its
\* return (part_000 146-209), in the extraction state s.  The four extraction
\* methods are async functions without a suspension of their own, so no other
\* callback runs between them.  outcome: "threw" (a method raised), "noBooks"
\* (processedBooks is empty) or "books".
Kdp_begin(s, c, from, outcome) ==
    IF Kdp_returnsEarly(s)
    THEN /\ kdpCalls' = [kdpCalls EXCEPT ![c] = [pc |-> "settled", from |-> from,
                             performed |-> FALSE, answer |-> Kdp_answer(from, TRUE)]]
         /\ kdpState' = s
    ELSE LET n == s.retryCount + 1
         IN  CASE outcome = "threw" ->
                    /\ kdpCalls' = [kdpCalls EXCEPT ![c] = [pc |-> "settled", from |-> from,
                                        performed |-> TRUE, answer |-> Kdp_answer(from, FALSE)]]
                    /\ kdpState' = [s EXCEPT !.retryCount = n,
                                             !.timeouts = IF n < Kdp_MaxRetryAttempts
                                                          THEN s.timeouts + 1 ELSE s.timeouts]
               [] outcome = "noBooks" ->
                    /\ kdpCalls' = [kdpCalls EXCEPT ![c] = [pc |-> "settled", from |-> from,
                                        performed |-> TRUE, answer |-> Kdp_answer(from, TRUE)]]
                    /\ kdpState' = [s EXCEPT !.retryCount = n]
               [] OTHER ->
                    /\ kdpCalls' = [kdpCalls EXCEPT ![c] = [pc |-> "send", from |-> from,
                                        performed |-> TRUE, answer |-> "none"]]
                    /\ kdpState' = [s EXCEPT !.retryCount = n]

KdpOutcomes == {"threw", "noBooks", "books"}

\* initializeExtraction on a KDP page (part_000 85-109): setupKDPExtraction
\* sets a timeout for a first extraction, startPeriodicExtraction the interval.
Kdp_Initialize ==
    /\ ~kdpState.isActive
    /\ kdpState.timeouts < MaxKdpTimeouts    \* bound on the pending timeouts
    /\ kdpState' = [kdpState EXCEPT !.isActive = TRUE, !.intervalId = TRUE,
                          !.timeouts = kdpState.timeouts + 1]
    /\ UNCHANGED kdpCalls
    /\ UNCHANGED notKdp

\* The URL watcher sees a new URL (part_000 865-876); initializeExtraction
\* follows after its timeout.
Kdp_UrlChange ==
    /\ kdpState.isActive
    /\ kdpState' = [kdpState EXCEPT !.isActive = FALSE]
    /\ UNCHANGED kdpCalls
    /\ UNCHANGED notKdp

\* The interval timer of startPeriodicExtraction fires (part_000 760-766)
Kdp_Periodic(c, outcome) ==
    /\ kdpState.intervalId
    /\ Kdp_next(c)
    /\ Kdp_begin(kdpState, c, "interval", outcome)
    /\ UNCHANGED notKdp

\* onMessage 'extractData' / 'forceSync' on a KDP page (part_000 820-828)
Kdp_Message(c, outcome) ==
    /\ Kdp_next(c)
    /\ Kdp_begin(kdpState, c, "message", outcome)
    /\ UNCHANGED notKdp

\* A timeout set by setupKDPExtraction or by the catch block fires (part_000
\* 126-128, 202-204).
Kdp_Timeout(c, outcome) ==
    /\ kdpState.timeouts > 0
    /\ Kdp_next(c)
    /\ Kdp_begin([kdpState EXCEPT !.timeouts = kdpState.timeouts - 1], c, "timeout", outcome)
    /\ UNCHANGED notKdp

\* `await sendDataToDashboard(extractedData)` resolves (it catches its own
\* errors, part_000 770-803); the counter is reset and the data returned
\* (part_000 192-196).
Kdp_Sent(c) ==
    /\ kdpCalls[c].pc = "send"
    /\ kdpState' = [kdpState EXCEPT !.retryCount = 0]
    /\ kdpCalls' = [kdpCalls EXCEPT ![c].pc = "settled",
                                    ![c].answer = Kdp_answer(kdpCalls[c].from, TRUE)]
    /\ UNCHANGED notKdp

KdpNext ==
    \/ Kdp_Initialize
    \/ Kdp_UrlChange
    \/ \E c \in KdpIds, outcome \in KdpOutcomes : Kdp_Periodic(c, outcome)
    \/ \E c \in KdpIds, outcome \in KdpOutcomes : Kdp_Message(c, outcome)
    \/ \E c \in KdpIds, outcome \in KdpOutcomes : Kdp_Timeout(c, outcome)
    \/ \E c \in KdpIds : Kdp_Sent(c)

----------------------------------------------------------------------------
(* Advanced background service, src/unnamed/part_001: the settings and the
   auto-sync timer *)

\* CONFIG.SYNC_INTERVALS (part_001 7-11), in minutes
SyncIntervals == {5, 15, 60}

\* CONFIG.SYNC_INTERVALS.NORMAL (part_001 9), in minutes
NormalInterval == 15

\* backgroundState as the script sets it when it is loaded (part_001 27-37).
\* autoSync is the value of activeIntervals under the key 'autoSync' (0: the
\* map is empty), live the ids of the interval timers not cleared, timers the
\* number of ids setInterval has given out.
Bgs_loaded ==
    [isAutoSyncEnabled |-> TRUE, currentSyncInterval |-> NormalInterval,
     autoSync |-> 0, live |-> {}, timers |-> 0]

\* What chrome.storage holds of the settings.  local: the object under
\* 'kdp_settings' of chrome.storage.local (autoSyncEnabled "undefined" and
\* syncInterval 0 when the object or the field is missing).  sync: the keys of
\* chrome.storage.sync, 'kdp_settings' (the defaults object or unset),
\* 'kdp_settings.autoSyncEnabled' and 'kdp_settings.syncInterval'.
Bgs_emptyStorage ==
    [local |-> [autoSyncEnabled |-> "undefined", syncInterval |-> 0],
     sync |-> [settings |-> "unset", autoSyncEnabled |-> "undefined", syncInterval |-> 0]]

\* bgsAsked: the values the last toggleAutoSync and setSyncInterval calls
\* were given (interval 0: no call yet), whether the last of these calls was
\* made while an initialization was loading the settings, and the last
\* operation that ran to its end since the script was loaded.
BgsInit ==
    /\ bgs = Bgs_loaded
    /\ bgsStorage = Bgs_emptyStorage
    /\ bgsInits = [installed |-> "idle", startup |-> "idle"]
    /\ bgsAsked = [toggled |-> FALSE, enabled |-> TRUE, interval |-> 0,
                   raced |-> FALSE, last |-> "load"]

\* An initializeBackgroundService call is awaiting loadPersistedData.
Bgs_loading == \E event \in DOMAIN bgsInits : bgsInits[event] = "loading"

\* stopAutoSync (part_001 254-260)
stopAutoSync(s) ==
    [s EXCEPT !.live = IF s.autoSync # 0 THEN s.live \ {s.autoSync} ELSE s.live,
              !.autoSync = 0]

\* startAutoSync (part_001 239-252)
startAutoSync(s) ==
    LET t == stopAutoSync(s)
    IN  [t EXCEPT !.timers = t.timers + 1,
                  !.live = t.live \cup {t.timers + 1},
                  !.autoSync = t.timers + 1]

\* loadPersistedData after its storage.local.get (part_001 96-101): settings
\* is the object under 'kdp_settings' or {}.
loadPersistedData(s, settings) ==
    [s EXCEPT !.isAutoSyncEnabled = settings.autoSyncEnabled # "false",
              !.currentSyncInterval = IF settings.syncInterval # 0
                                      THEN settings.syncInterval ELSE NormalInterval]

\* setSyncInterval restarting auto-sync whatever isAutoSyncEnabled is.
Bgs_restartsOnInterval_Always(enabled) == TRUE

\* `if (backgroundState.isAutoSyncEnabled) startAutoSync()` of setSyncInterval
\* (part_001 624-626)
Bgs_restartsOnInterval(enabled) == enabled

\* toggleAutoSync (part_001 598-613) on the state s
toggleAutoSync(s, enabled) ==
    IF enabled THEN startAutoSync([s EXCEPT !.isAutoSyncEnabled = TRUE])
    ELSE stopAutoSync([s EXCEPT !.isAutoSyncEnabled = FALSE])

\* setSyncInterval (part_001 615-629) on the state s
setSyncInterval(s, interval) ==
    LET t == [s EXCEPT !.currentSyncInterval = interval]
    IN  IF Bgs_restartsOnInterval(t.isAutoSyncEnabled) THEN startAutoSync(t) ELSE t

\* The service worker is stopped and the script loaded again: backgroundState
\* and the timers are gone, chrome.storage stays.
Bgs_Restart ==
    /\ bgs' = Bgs_loaded
    /\ bgsInits' = [installed |-> "idle", startup |-> "idle"]
    /\ bgsAsked' = [bgsAsked EXCEPT !.raced = FALSE, !.last = "load"]
    /\ UNCHANGED bgsStorage
    /\ UNCHANGED notBgs

\* chrome.runtime.onInstalled / onStartup (part_001 40-58): the listener
\* calls initializeBackgroundService, which awaits loadPersistedData.
Bgs_InitBegin(event) ==
    /\ bgsInits[event] = "idle"
    /\ bgsInits' = [bgsInits EXCEPT ![event] = "loading"]
    /\ UNCHANGED <<bgs, bgsStorage, bgsAsked>>
    /\ UNCHANGED notBgs

\* The storage.local.get of loadPersistedData settles (part_001 86-112;
\* loaded FALSE: it rejected, and the catch leaves backgroundState as it is),
\* then initializeBackgroundService runs to its end (part_001 66-77).  After an
\* install the listener goes on to setupDefaultSettings.
Bgs_InitLoaded(event, loaded) ==
    /\ bgsInits[event] = "loading"
    /\ bgs.timers < MaxTimers    \* bound on the timers created
    /\ LET s == IF loaded THEN loadPersistedData(bgs, bgsStorage.local) ELSE bgs
       IN  bgs' = IF s.isAutoSyncEnabled THEN startAutoSync(s) ELSE s
    /\ bgsInits' = [bgsInits EXCEPT ![event] = IF event = "installed" THEN "defaults" ELSE "idle"]
    /\ bgsAsked' = [bgsAsked EXCEPT !.last = "init"]
    /\ UNCHANGED bgsStorage
    /\ UNCHANGED notBgs

\* setupDefaultSettings (part_001 114-130): the defaults object goes to
\* chrome.storage.sync under 'kdp_settings'.
Bgs_SetupDefaults ==
    /\ bgsInits.installed = "defaults"
    /\ bgsStorage' = [bgsStorage EXCEPT !.sync.settings = "defaults"]
    /\ bgsInits' = [bgsInits EXCEPT !.installed = "idle"]
    /\ UNCHANGED <<bgs, bgsAsked>>
    /\ UNCHANGED notBgs

\* onMessage 'toggleAutoSync' (part_001 550-553, 598-613): the value is saved
\* to chrome.storage.sync under the key 'kdp_settings.autoSyncEnabled'.
Bgs_Toggle(enabled) ==
    /\ bgs.timers < MaxTimers    \* bound on the timers created
    /\ bgs' = toggleAutoSync(bgs, enabled)
    /\ bgsStorage' = [bgsStorage EXCEPT !.sync.autoSyncEnabled =
                                            IF enabled THEN "true" ELSE "false"]
    /\ bgsAsked' = [bgsAsked EXCEPT !.toggled = TRUE, !.enabled = enabled,
                                    !.raced = Bgs_loading, !.last = "toggle"]
    /\ UNCHANGED bgsInits
    /\ UNCHANGED notBgs

\* onMessage 'setSyncInterval' (part_001 555-558, 615-629): the value is saved
\* to chrome.storage.sync under the key 'kdp_settings.syncInterval'.
Bgs_SetSyncInterval(interval) ==
    /\ bgs.timers < MaxTimers    \* bound on the timers created
    /\ bgs' = setSyncInterval(bgs, interval)
    /\ bgsStorage' = [bgsStorage EXCEPT !.sync.syncInterval = interval]
    /\ bgsAsked' = [bgsAsked EXCEPT !.interval = interval,
                                    !.raced = Bgs_loading, !.last = "interval"]
    /\ UNCHANGED bgsInits
    /\ UNCHANGED notBgs

\* chrome.runtime.onSuspend (part_001 795-806)
Bgs_Suspend ==
    /\ bgs' = stopAutoSync(bgs)
    /\ bgsAsked' = [bgsAsked EXCEPT !.last = "suspend"]
    /\ UNCHANGED <<bgsStorage, bgsInits>>
    /\ UNCHANGED notBgs

BgsNext ==
    \/ Bgs_Restart
    \/ \E event \in {"installed", "startup"} : Bgs_InitBegin(event)
    \/ \E event \in {"installed", "startup"}, loaded \in BOOLEAN : Bgs_InitLoaded(event, loaded)
    \/ Bgs_SetupDefaults
    \/ \E enabled \in BOOLEAN : Bgs_Toggle(enabled)
    \/ \E interval \in SyncIntervals : Bgs_SetSyncInterval(interval)
    \/ Bgs_Suspend

----------------------------------------------------------------------------
(* Dashboard server, src/dashboard_server.js: the sizes of the lists of all
   users.  An entry is kept as the timestamp of its request, the number of
   the request in arrival order. *)

CapUsers == {"u1", "u2"}

Req(type, user, data) == [type |-> type, user |-> user, data |-> data]

\* The request streams: the bodies a stream sends, over and over in this
\* order.  data "ok" is an object, "null" is null (the handler then fails
\* after it has stored the entry).
CapStreams ==
    << << Req("kdp", "u1", "ok") >>,
       << Req("ads", "u1", "ok"), Req("ads", "u2", "ok") >>,
       << Req("kdp", "u1", "ok"), Req("ads", "u1", "ok"),
          Req("kdp", "u2", "ok"), Req("background_sync", "u1", "ok") >>,
       << Req("kdp", "u1", "ok"), Req("kdp", "u1", "null") >> >>

\* The body of request number n of a stream.
Cap_request(stream, n) == CapStreams[stream][((n - 1) % Len(CapStreams[stream])) + 1]

\* dashboardData before the first request (16-21), for one stream.
Cap_empty(stream) ==
    /\ capStream = stream
    /\ capCount = 0
    /\ capUsers = {}
    /\ capKdp = [u \in CapUsers |-> <<>>]
    /\ capAds = [u \in CapUsers |-> <<>>]
    /\ capLog = <<>>

CapIdle == Cap_empty(1)

CapInit == \E stream \in DOMAIN CapStreams : Cap_empty(stream)

\* POST /api/sync (39-120) with the next body of the stream: the entry is
\* pushed onto the user's list of its type and the list cut to its last 100
\* (66-85); then the log entry is pushed and the log cut to its last 1000
\* (91-103), unless data is null and data.salesData raises first (95).
Cap_Sync ==
    /\ capCount < MaxCapSyncs
    /\ LET n == capCount + 1
           r == Cap_request(capStream, n)
       IN  /\ capCount' = n
           /\ capUsers' = capUsers \cup {r.user}
           /\ capKdp' = IF r.type = "kdp"
                        THEN [capKdp EXCEPT ![r.user] = SliceLast(Append(@, n), DsEntryCap)]
                        ELSE capKdp
           /\ capAds' = IF r.type = "ads"
                        THEN [capAds EXCEPT ![r.user] = SliceLast(Append(@, n), DsEntryCap)]
                        ELSE capAds
           /\ capLog' = IF r.data = "null" THEN capLog
                        ELSE SliceLast(Append(capLog, n), DsLogCap)
    /\ UNCHANGED capStream
    /\ UNCHANGED notCap

CapNext == Cap_Sync

----------------------------------------------------------------------------
(* Specifications: one per component, over the same initial state *)

\* The components that a specification does not run stay in one idle state.
TraverseIdle ==
    /\ graph = [n \in NodeIds |-> [isArray |-> FALSE, title |-> <<>>,
                                   revenue |-> Undef, kids |-> <<>>]]
    /\ stack = <<>>
    /\ emitted = <<>>
    /\ trPc = "start"
    /\ trObj = "unset"

Init ==
    /\ DedupInit
    /\ StoreInit
    /\ TraverseIdle
    /\ TablesInit
    /\ AdvRowInit
    /\ DsInit
    /\ ExtInit
    /\ SyncInit
    /\ SrvInit
    /\ SbInit
    /\ KdpInit
    /\ BgsInit
    /\ CapIdle

InitTraverse ==
    /\ DedupInit
    /\ StoreInit
    /\ TraverseInit
    /\ TablesInit
    /\ AdvRowInit
    /\ DsInit
    /\ ExtInit
    /\ SyncInit
    /\ SrvInit
    /\ SbInit
    /\ KdpInit
    /\ BgsInit
    /\ CapIdle

InitCaps ==
    /\ DedupInit
    /\ StoreInit
    /\ TraverseIdle
    /\ TablesInit
    /\ AdvRowInit
    /\ DsInit
    /\ ExtInit
    /\ SyncInit
    /\ SrvInit
    /\ SbInit
    /\ KdpInit
    /\ BgsInit
    /\ CapInit

SpecTraverse == InitTraverse /\ [][TraverseNext]_vars

SpecTables == Init /\ [][TablesNext]_vars

SpecAdvRow == Init /\ [][AdvRowNext]_vars

SpecDashboard == Init /\ [][DsNext]_vars

SpecDedup == Init /\ [][DedupNext]_vars

SpecStore == Init /\ [][StoreNext]_vars

SpecRuns == Init /\ [][RunsNext]_vars

SpecServer == Init /\ [][SrvNext]_vars

SpecSimpleBg == Init /\ [][SbNext]_vars

SpecKdp == Init /\ [][KdpNext]_vars

SpecSettings == Init /\ [][BgsNext]_vars

SpecCaps == InitCaps /\ [][CapNext]_vars

----------------------------------------------------------------------------
(* Helpers of the deduplication claims *)

Perms(n) == { p \in [1..n -> 1..n] : \A i, j \in 1..n : p[i] = p[j] => i = j }

Permute(bs, p) == [i \in 1..Len(bs) |-> bs[p[i]]]

RndSeqs(n) == [1..n -> RandomIds]

\* A candidate with the minimum signal of the data model (title and one metric):
\* both scripts fold it and return its record.
Accepted(c) == isValidBookData(c)

\* The numeric fields of each returned record, by the record's dedup key.
Enh_numView(rs) ==
    { <<Enh_key(rs[i]), rs[i].totalRoyalties, rs[i].totalSales,
        rs[i].kenpReads, rs[i].kenpRoyalties>> : i \in DOMAIN rs }

Adv_numView(rs) ==
    { <<Adv_key(rs[i]), rs[i].totalRoyalties, rs[i].totalSales,
        rs[i].kenpReads, rs[i].kenpRoyalties>> : i \in DOMAIN rs }

\* Title, identifier, region and numeric fields of each returned record, by key.
Enh_recView(rs) ==
    { <<Enh_key(rs[i]), rs[i].title, rs[i].asin, rs[i].country,
        rs[i].totalRoyalties, rs[i].totalSales,
        rs[i].kenpReads, rs[i].kenpRoyalties>> : i \in DOMAIN rs }

Adv_recView(rs) ==
    { <<Adv_key(rs[i]), rs[i].title, rs[i].asin, rs[i].country,
        rs[i].totalRoyalties, rs[i].totalSales,
        rs[i].kenpReads, rs[i].kenpRoyalties>> : i \in DOMAIN rs }

\* The map entry a candidate was folded into.
Enh_home(bs, i) ==
    CHOOSE h \in 1..Len(Enh_fold(bs, Len(bs))) :
        Enh_fold(bs, Len(bs))[h].key = Enh_key(bs[i])

Adv_home(bs, rnds, i) ==
    CHOOSE h \in 1..Len(Adv_fold(bs, rnds, Len(bs))) :
        Adv_fold(bs, rnds, Len(bs))[h].key = Adv_key(bs[i])

NormTitle(c) == Trim(ToLowerCase(c.title))

\* Two candidates the dedup rule of the data model identifies.
SameEntity(c, d) ==
    \/ Truthy(c.asin) /\ c.asin = d.asin
    \/ ~Truthy(c.asin) /\ ~Truthy(d.asin) /\ NormTitle(c) = NormTitle(d)

----------------------------------------------------------------------------
(* C1: whatever the order of the candidates in the input list,             *)
(* processAndDeduplicateBooks returns, for each dedup key, the same        *)
(* totalRoyalties, totalSales, kenpReads and kenpRoyalties.                *)
C1_OrderIndependentNumerics ==
    /\ script = "enhanced" =>
         \A p \in Perms(Len(books)) :
            Enh_numView(Enh_processAndDeduplicateBooks(Permute(books, p)))
              = Enh_numView(result)
    /\ script = "advanced" =>
         \A p \in Perms(Len(books)) : \A rnds \in RndSeqs(Len(books)) :
            Adv_numView(Adv_processAndDeduplicateBooks(Permute(books, p), rnds))
              = Adv_numView(result)

(* C2: two accepted candidates with the same non-empty identifier, or with *)
(* no identifier and equal lower-cased trimmed titles, end up in one       *)
(* canonical record.                                                       *)
C2_SameEntityOneRecord ==
    /\ script = "enhanced" =>
         \A i, j \in DOMAIN books :
            (Accepted(books[i]) /\ Accepted(books[j])
               /\ SameEntity(books[i], books[j]))
            => Enh_home(books, i) = Enh_home(books, j)
    /\ script = "advanced" =>
         \A i, j \in DOMAIN books : \A rnds \in RndSeqs(Len(books)) :
            (Accepted(books[i]) /\ Accepted(books[j])
               /\ SameEntity(books[i], books[j]))
            => Adv_home(books, rnds, i) = Adv_home(books, rnds, j)

(* C3: two accepted candidates carrying different non-empty identifiers    *)
(* are never folded into the same canonical record, even when their titles *)
(* are equal.                                                              *)
C3_DistinctIdentifiersApart ==
    /\ script = "enhanced" =>
         \A i, j \in DOMAIN books :
            (Accepted(books[i]) /\ Accepted(books[j])
               /\ Truthy(books[i].asin) /\ Truthy(books[j].asin)
               /\ books[i].asin # books[j].asin)
            => Enh_home(books, i) # Enh_home(books, j)
    /\ script = "advanced" =>
         \A i, j \in DOMAIN books : \A rnds \in RndSeqs(Len(books)) :
            (Accepted(books[i]) /\ Accepted(books[j])
               /\ Truthy(books[i].asin) /\ Truthy(books[j].asin)
               /\ books[i].asin # books[j].asin)
            => Adv_home(books, rnds, i) # Adv_home(books, rnds, j)

(* C4: processAndDeduplicateBooks applied to the list it returned yields   *)
(* the same canonical records: the same dedup keys and, for each key, the  *)
(* same title, identifier, region and numeric fields.                      *)
C4_Idempotent ==
    /\ script = "enhanced" =>
         Enh_recView(Enh_processAndDeduplicateBooks(result)) = Enh_recView(result)
    /\ script = "advanced" =>
         \A rnds \in RndSeqs(Len(result)) :
            Adv_recView(Adv_processAndDeduplicateBooks(result, rnds)) = Adv_recView(result)

(* C5: every record processAndDeduplicateBooks returns, and every record   *)
(* isValidBookData accepts, has a non-empty title and at least one of      *)
(* totalRoyalties, totalSales, kenpReads strictly greater than 0.          *)
HasMinimumSignal(b) ==
    /\ Len(b.title) > 0
    /\ (b.totalRoyalties > 0 \/ b.totalSales > 0 \/ b.kenpReads > 0)

C5_MinimumSignal ==
    /\ script # "none" => \A i \in DOMAIN result : HasMinimumSignal(result[i])
    /\ \A i \in DOMAIN books : isValidBookData(books[i]) => HasMinimumSignal(books[i])

\* A run that dropped a candidate without signal and returned another one.
C5_Witness ==
    /\ script = "advanced"
    /\ Len(result) = 1
    /\ \E i \in DOMAIN books : ~HasMinimumSignal(books[i])
    /\ \E i \in DOMAIN books : HasMinimumSignal(books[i])

(* C6: each of totalRoyalties, totalSales, kenpReads and kenpRoyalties of  *)
(* a canonical record equals the maximum of that field over the candidates *)
(* folded under its dedup key, a missing value counting as 0.  For         *)
(* kenpRoyalties the candidates' values are taken either all as given or   *)
(* all as the validator derives them (reads x rate when 0): the claim      *)
(* fails under both readings.                                              *)
DerivedKenpRoyalties(c) ==
    IF JsNum(c.kenpRoyalties) = 0 THEN JsNum(c.kenpReads) * KenpRateMills
    ELSE c.kenpRoyalties

Enh_group(k) == { i \in DOMAIN books : Truthy(books[i].title) /\ Enh_key(books[i]) = k }

Adv_group(k) == { i \in DOMAIN books : isValidBookData(books[i]) /\ Adv_key(books[i]) = k }

MaxOfFields(r, G) ==
    /\ JsNum(r.totalRoyalties) = SetMax({ JsNum(books[i].totalRoyalties) : i \in G })
    /\ JsNum(r.totalSales)     = SetMax({ JsNum(books[i].totalSales) : i \in G })
    /\ JsNum(r.kenpReads)      = SetMax({ JsNum(books[i].kenpReads) : i \in G })

KenpRoyaltiesAsGiven(r, G) ==
    JsNum(r.kenpRoyalties) = SetMax({ JsNum(books[i].kenpRoyalties) : i \in G })

KenpRoyaltiesAsDerived(r, G) ==
    JsNum(r.kenpRoyalties) = SetMax({ DerivedKenpRoyalties(books[i]) : i \in G })

C6_MaxOfCandidates ==
    /\ script = "enhanced" =>
         /\ \A i \in DOMAIN result : MaxOfFields(result[i], Enh_group(Enh_key(result[i])))
         /\ \/ \A i \in DOMAIN result :
                  KenpRoyaltiesAsGiven(result[i], Enh_group(Enh_key(result[i])))
            \/ \A i \in DOMAIN result :
                  KenpRoyaltiesAsDerived(result[i], Enh_group(Enh_key(result[i])))
    /\ script = "advanced" =>
         /\ \A i \in DOMAIN result : MaxOfFields(result[i], Adv_group(Adv_key(result[i])))
         /\ \/ \A i \in DOMAIN result :
                  KenpRoyaltiesAsGiven(result[i], Adv_group(Adv_key(result[i])))
            \/ \A i \in DOMAIN result :
                  KenpRoyaltiesAsDerived(result[i], Adv_group(Adv_key(result[i])))

\* The three fields no enhancement touches are the maximum in both scripts.
C6_MaxOfUntouchedFields ==
    /\ script = "enhanced" =>
         \A i \in DOMAIN result : MaxOfFields(result[i], Enh_group(Enh_key(result[i])))
    /\ script = "advanced" =>
         \A i \in DOMAIN result : MaxOfFields(result[i], Adv_group(Adv_key(result[i])))

----------------------------------------------------------------------------
(* C7: when a candidate is folded into an existing canonical record whose  *)
(* identifier, region or source tag is non-empty, that field keeps the     *)
(* existing value.  Stated of the background store: the record written     *)
(* under the key of a record that was read keeps that record's non-empty   *)
(* asin, country and source.                                               *)
KeepsStrings(existing, merged) ==
    /\ Truthy(existing.asin) => merged.asin = existing.asin
    /\ Truthy(existing.country) => merged.country = existing.country
    /\ existing.source # "" => merged.source = existing.source

C7_ExistingStringsKept ==
    [][\A c \in SaveIds :
         (saveCalls[c].pc = "merge" /\ saveCalls'[c].pc = "done") =>
            \A i \in DOMAIN saveCalls[c].booksArray : \A j \in DOMAIN storedBooks' :
               Bg_key(storedBooks'[j]) = Bg_key(saveCalls[c].booksArray[i])
               => KeepsStrings(saveCalls[c].booksArray[i], storedBooks'[j])]_vars

----------------------------------------------------------------------------
(* C8: extractBooksFromObject terminates on every input, a value with a    *)
(* reference cycle included, without unbounded recursion or stack          *)
(* overflow, and returns the records found before the cycle was met.       *)
C8_TerminatesOnCycles == trPc # "overflow"

(* C10: for an acyclic nested value extractBooksFromObject emits exactly   *)
(* one candidate for each object of the tree, at any depth, reached as a   *)
(* property value or as an array element, that has a title passing the     *)
(* title heuristic and a numeric metric field; objects without a passing   *)
(* title emit nothing.  (An object with a passing title and no metric      *)
(* field is left unconstrained here: the code emits it with metrics 0.)    *)
KidsOf(n) == { graph[n].kids[i] : i \in DOMAIN graph[n].kids }

RECURSIVE ReachFrom(_, _)
ReachFrom(S, n) ==
    IF n = 0 THEN S ELSE ReachFrom(S \cup UNION { KidsOf(p) : p \in S }, n - 1)

Reachable == ReachFrom({1}, MaxNodes)

\* The number of places of the tree at which node n stands.
RECURSIVE PathsTo(_)
RECURSIVE SumPathsTo(_)
SumPathsTo(S) ==
    IF S = {} THEN 0
    ELSE LET p == SetMin(S) IN PathsTo(p) + SumPathsTo(S \ {p})

PathsTo(n) ==
    (IF n = 1 THEN 1 ELSE 0) + SumPathsTo({ p \in Reachable : n \in KidsOf(p) })

IsBookObject(n) ==
    /\ ~graph[n].isArray
    /\ Enh_isLikelyBookTitle(graph[n].title)
    /\ graph[n].revenue # Undef

EmittedCount(n) == Cardinality({ k \in DOMAIN emitted : emitted[k].node = n })

\* The places at which node n is reached as a property value or array element.
PlacesBelowRoot(n) == IF n \in Reachable THEN PathsTo(n) - (IF n = 1 THEN 1 ELSE 0) ELSE 0

C10_OneCandidatePerBookObject ==
    (trPc = "done" /\ trObj = "value") =>
        \A n \in NodeIds :
            /\ IsBookObject(n) => EmittedCount(n) = PlacesBelowRoot(n)
            /\ ~Enh_isLikelyBookTitle(graph[n].title) => EmittedCount(n) = 0

----------------------------------------------------------------------------
(* C9: table extraction never raises for data-shape reasons: for every     *)
(* table and every cell text extractBookDataFromRow and extractFromTables  *)
(* complete without throwing, and the records of the other rows are still  *)
(* returned.                                                               *)
C9_TableExtractionNeverThrows == tblPc # "threw"

----------------------------------------------------------------------------
(* C11: with no header-derived hint for the cell's column,                 *)
(* identifyCellType gives a text of exactly 10 capitals or digits (such as *)
(* "B0BWFC3554") the kind 'asin'.                                          *)
IsAsinText(text) ==
    Len(text) = AsinLen /\ \A i \in 1..Len(text) : IsUpperOrDigit(text[i])

NoHeaderHint(index) ==
    \A k \in DOMAIN Adv_typeOrder : index \notin createHeaderMap(advHeaders)[Adv_typeOrder[k]]

C11_AsinTextIsIdentifier ==
    \A i \in DOMAIN advCells :
        (IsAsinText(advCells[i]) /\ NoHeaderHint(i)) => advTypes[i] = "asin"

----------------------------------------------------------------------------
(* C12: the money value taken from a cell is the sum of all amounts that   *)
(* follow a currency symbol in it (0 when it holds none): this is what     *)
(* extractMoneyAmount returns and what a table cell contributes to the     *)
(* earnings of its row.  Stated on the first money cell of a row of        *)
(* extractBookDataFromRow: the row's revenue becomes the cell's sum.       *)
C12_CellMoneyIsSumOfAmounts ==
    [][\A text \in CellTexts :
          (Tbl_Cell(text) /\ tblAcc.revenue = 0 /\ tblPc' = "cells")
              => tblAcc'.revenue = Enh_extractMoneyAmount(text)]_vars

----------------------------------------------------------------------------
----------------------------------------------------------------------------
(* Helpers of the dashboard claims: the records the server was given, and  *)
(* the matching relation as the specification words it.                    *)
GivenKdp == Flatten(dsKdp)

GivenAds == Flatten(dsAds)

Answered == dsAsked /\ dsStatus = 200

Prefix20Lower(name) == ToLowerCase(SubSeq(name, 1, IF Len(name) < 20 THEN Len(name) ELSE 20))

NameMatch(title, campaignName) ==
    /\ title # <<>>
    /\ campaignName # <<>>
    /\ \/ Includes(ToLowerCase(campaignName), Prefix20Lower(title))
       \/ Includes(ToLowerCase(title), Prefix20Lower(campaignName))

MatchingCampaigns(i) ==
    { j \in DOMAIN GivenAds : NameMatch(GivenKdp[i].title, GivenAds[j].campaignName) }

(* C14: processUserData returns exactly one combined record for each       *)
(* publishing record it is given, in input order, whether the record       *)
(* matches zero, one or many campaigns.                                    *)
C14_OneCombinedRecordPerKdpRecord ==
    Answered =>
        /\ Len(dsOut.combinedData) = Len(GivenKdp)
        /\ \A i \in DOMAIN GivenKdp :
             /\ dsOut.combinedData[i].title = GivenKdp[i].title
             /\ dsOut.combinedData[i].royalty = JsNum(GivenKdp[i].royalty)

\* An answer over a record without campaign, one with one and one with two.
C14_Witness ==
    /\ Answered
    /\ Len(dsOut.combinedData) = 3
    /\ \E i \in DOMAIN GivenKdp : Cardinality(MatchingCampaigns(i)) = 0
    /\ \E i \in DOMAIN GivenKdp : Cardinality(MatchingCampaigns(i)) = 1
    /\ \E i \in DOMAIN GivenKdp : Cardinality(MatchingCampaigns(i)) = 2

(* C15: for every publishing record, adSpend is the sum of spend, adSales  *)
(* the sum of sales and acos the mean of acos over exactly the campaigns   *)
(* that match the record; all three are 0 when none matches.               *)
C15_AdTotalsOverMatchingCampaigns ==
    Answered =>
        \A i \in DOMAIN GivenKdp :
            LET ms == MatchingCampaigns(i)
                c  == dsOut.combinedData[i]
            IN  /\ c.adSpend = SumOver(GivenAds, ms, "spend")
                /\ c.adSales = SumOver(GivenAds, ms, "sales")
                /\ c.acos.den > 0
                /\ c.acos.num * (IF ms = {} THEN 1 ELSE Cardinality(ms))
                      = SumOver(GivenAds, ms, "acos") * c.acos.den

\* An answer with a record that two campaigns of different spend match.
C15_Witness ==
    /\ Answered
    /\ \E i \in DOMAIN GivenKdp :
         /\ Cardinality(MatchingCampaigns(i)) = 2
         /\ dsOut.combinedData[i].adSpend = 4000
         /\ dsOut.combinedData[i].acos = [num |-> 800, den |-> 2]

(* C16: every combined record has netProfit = earnings of its publishing   *)
(* record minus adSpend; the record {title: "Empath and Psychic            *)
(* Abilities", earnings: 10.00} with the campaign {campaignName: "Empath   *)
(* and Psychic Abilities - Campaign", spend: 3.00, acos: 0.3} gives        *)
(* adSpend 3.00, netProfit 7.00 and acos 0.3.                              *)
C16_NetProfit ==
    /\ Answered =>
         \A i \in DOMAIN GivenKdp :
            dsOut.combinedData[i].netProfit
               = JsNum(GivenKdp[i].royalty) - dsOut.combinedData[i].adSpend
    /\ (/\ Answered
        /\ GivenKdp = << [title |-> T_Title, royalty |-> 10000, unitsSold |-> Undef] >>
        /\ GivenAds = << [campaignName |-> N_Campaign, spend |-> 3000, sales |-> 1,
                          acos |-> 300] >>)
         => /\ dsOut.combinedData[1].adSpend = 3000
            /\ dsOut.combinedData[1].netProfit = 7000
            /\ dsOut.combinedData[1].acos = [num |-> 300, den |-> 1]

\* The answer to the scenario of the specification.
C16_Witness ==
    /\ Answered
    /\ GivenKdp = << [title |-> T_Title, royalty |-> 10000, unitsSold |-> Undef] >>
    /\ GivenAds = << [campaignName |-> N_Campaign, spend |-> 3000, sales |-> 1, acos |-> 300] >>
    /\ dsOut.combinedData[1].netProfit = 7000

----------------------------------------------------------------------------
(* C18: merges into the stored book set are serialized, so that after any  *)
(* set of saveExtractedData calls has completed the store contains the     *)
(* merge of every call's books (no lost update).  Stated of runs in which  *)
(* the cleanup has written nothing: when every call is done, each book of  *)
(* each call has a record under its key.                                   *)
SameKey(a, b) == Bg_key(a) = Bg_key(b)

C18_NoLostUpdate ==
    (/\ \A c \in SaveIds : saveCalls[c].pc = "done"
     /\ cleanup.pc = "idle"
     /\ ~cleanup.present)
        => \A c \in SaveIds : \A i \in DOMAIN saveCalls[c].data :
              \E j \in DOMAIN storedBooks : SameKey(storedBooks[j], saveCalls[c].data[i])

(* C19: across any sequence of merges into the persisted book store, none  *)
(* of totalRoyalties, totalSales, kenpReads and kenpRoyalties of an        *)
(* existing record ever decreases.  Stated of one merge of the background  *)
(* store that read the store as it is when it writes.                      *)
NumbersNotBelow(old, new) ==
    /\ JsNum(new.totalRoyalties) >= JsNum(old.totalRoyalties)
    /\ JsNum(new.totalSales) >= JsNum(old.totalSales)
    /\ JsNum(new.kenpReads) >= JsNum(old.kenpReads)
    /\ JsNum(new.kenpRoyalties) >= JsNum(old.kenpRoyalties)

C19_NumbersNeverDecrease ==
    [][\A c \in SaveIds :
         (/\ saveCalls[c].pc = "merge"
          /\ saveCalls'[c].pc = "done"
          /\ saveCalls[c].booksArray = storedBooks)
            => \A i \in DOMAIN storedBooks : \A j \in DOMAIN storedBooks' :
                  SameKey(storedBooks[i], storedBooks'[j])
                     => NumbersNotBelow(storedBooks[i], storedBooks'[j])]_vars

(* C20: once a record is in the persisted book store no operation removes  *)
(* it.  Stated of the maintenance task: a daily cleanup that read the      *)
(* store as it is when it writes leaves a record under the key of every    *)
(* record of the store.                                                    *)
C20_RecordsNeverRemoved ==
    [][(/\ cleanup.pc = "filter"
        /\ cleanup'.pc = "idle"
        /\ cleanup.booksData = storedBooks)
          => \A i \in DOMAIN storedBooks :
                \E j \in DOMAIN storedBooks' : SameKey(storedBooks[i], storedBooks'[j])]_vars

----------------------------------------------------------------------------
(* C21: a candidate that fails the minimum-signal check (empty title, or  *)
(* no metric > 0) contributes nothing: the records returned by            *)
(* processAndDeduplicateBooks are those returned for the candidates that  *)
(* pass the check, so no field of a returned record comes from a dropped  *)
(* candidate.                                                             *)
WithSignal(bs) == SelectSeq(bs, HasMinimumSignal)

C21_DroppedContributesNothing ==
    /\ script = "enhanced" =>
         result = Enh_processAndDeduplicateBooks(WithSignal(books))
    /\ script = "advanced" =>
         \E rnds \in RndSeqs(Len(WithSignal(books))) :
            result = Adv_processAndDeduplicateBooks(WithSignal(books), rnds)

\* The same statement for the advanced script alone (part_000 638-639).
C21_AdvDroppedContributesNothing ==
    script = "advanced" =>
        \E rnds \in RndSeqs(Len(WithSignal(books))) :
            result = Adv_processAndDeduplicateBooks(WithSignal(books), rnds)

----------------------------------------------------------------------------
(* C22: two observations of a book with the same title and no identifier, *)
(* produced by two extraction passes of the advanced script and saved     *)
(* through the background store's mergeBookData, collapse into one stored *)
(* record.  Stated of one merge that read the store as it is when it      *)
(* writes: when the store holds an observation without identifier as      *)
(* enhanceBookData returns it and the call saves another one of the same  *)
(* title, the store holds one record of that title afterwards.            *)
FallbackIdentified(b) ==
    /\ ~Truthy(b.asin)
    /\ \E rnd \in RandomIds :
         \A f \in DOMAIN Book(<<>>, <<>>, 0, 0, 0, 0, <<>>, "") :
            b[f] = enhanceBookData([g \in DOMAIN Book(<<>>, <<>>, 0, 0, 0, 0, <<>>, "")
                                      |-> IF g = "id" THEN <<>> ELSE b[g]], rnd)[f]

RecordsTitled(bs, t) == { i \in DOMAIN bs : NormTitle(bs[i]) = t }

C22_MergesStableAcrossRuns ==
    [][\A c \in SaveIds :
         (/\ saveCalls[c].pc = "merge"
          /\ saveCalls'[c].pc = "done"
          /\ saveCalls[c].booksArray = storedBooks
          /\ Len(storedBooks) = 1
          /\ Len(saveCalls[c].data) = 1
          /\ FallbackIdentified(storedBooks[1])
          /\ FallbackIdentified(saveCalls[c].data[1])
          /\ NormTitle(storedBooks[1]) = NormTitle(saveCalls[c].data[1]))
            => Cardinality(RecordsTitled(storedBooks', NormTitle(storedBooks[1]))) = 1]_vars

----------------------------------------------------------------------------
(* C23: calling an extractor with a null or undefined source produces a   *)
(* clearly labeled input-validation error at the extractor boundary, not  *)
(* an empty result and not a generic null-dereference.  Stated of         *)
(* extractBooksFromObject: a call with a null object does not return.     *)
C23_NullSourceIsValidationError ==
    trObj = "null" => trPc # "done"

----------------------------------------------------------------------------
(* C24: every extraction or sync run ends with its in-progress flag       *)
(* cleared, whether it finds records, finds none or fails:                *)
(* extractionInProgress is true only while a performEnhancedExtraction    *)
(* run has not settled and syncInProgress only while a                    *)
(* performScheduledSync run has not settled, so no request is rejected or *)
(* skipped because of a run that has finished.                            *)
Ext_running == { c \in ExtIds : extCalls[c].pc \in {"sections", "views"} }

Sync_running == { c \in SyncIds : syncCalls[c].pc \in {"tabs", "api", "save"} }

C24_FlagClearedWhenRunSettles ==
    /\ extractionInProgress => Ext_running # {}
    /\ syncInProgress => Sync_running # {}

\* A failed extraction and a failed sync, each followed by a run that was
\* not turned away and has settled too.
C24_Witness ==
    /\ \E c, d \in ExtIds : /\ extCalls[c].answer = "failed"
                            /\ extCalls[d].answer = "noBooks"
    /\ \E c, d \in SyncIds : /\ syncCalls[c].outcome = "failed"
                             /\ syncCalls[d].outcome = "completed"
    /\ ~extractionInProgress
    /\ ~syncInProgress

----------------------------------------------------------------------------
(* C30: in the content script at most one performEnhancedExtraction run  *)
(* is in progress at any time: a call made (by a message, the interval    *)
(* timer or the observer's timeout) while a run is in progress performs   *)
(* no extraction and is answered success:false 'Extraction already in     *)
(* progress'.                                                             *)
Ext_called(c) ==
    /\ extCalls[c].pc \in {"idle", "scheduled"}
    /\ extCalls'[c].pc \notin {"idle", "scheduled"}

C30_AtMostOneRunInProgress ==
    [][/\ Cardinality(Ext_running') <= 1
       /\ \A c \in ExtIds :
            (Ext_called(c) /\ Ext_running # {})
               => /\ extCalls'[c] = [pc |-> "settled", answer |-> "inProgress"]
                  /\ Ext_running' = Ext_running]_vars

\* A call was turned away while another run awaits its report views.
C30_Witness ==
    \E c, d \in ExtIds :
        /\ extCalls[c].pc = "views"
        /\ extCalls[d] = [pc |-> "settled", answer |-> "inProgress"]

----------------------------------------------------------------------------
(* C25: in a table row with several cells of the same string kind (title *)
(* or identifier) the row's candidate takes the value of the first        *)
(* qualifying cell in cell order; later qualifying cells of that kind do  *)
(* not replace it.  Stated of extractBookFromTableRow, a qualifying cell  *)
(* being one the function gives the kind and whose text passes the        *)
(* kind's test.                                                           *)
TitleCells ==
    { i \in DOMAIN advCells : advTypes[i] = "title" /\ Adv_isLikelyBookTitle(advCells[i]) }

AsinCells ==
    { i \in DOMAIN advCells : advTypes[i] = "asin" /\ AsinMatch(advCells[i]) # <<>> }

C25_FirstQualifyingStringKept ==
    (advPc = "returned" /\ advResult # NoBook) =>
        /\ TitleCells # {} => advResult.title = advCells[SetMin(TitleCells)]
        /\ AsinCells # {} => advResult.asin = AsinMatch(advCells[SetMin(AsinCells)])

----------------------------------------------------------------------------
(* C26: every candidate produced from a table row satisfies               *)
(* kenpRoyalties = kenpReads x 0.004 for the row's final kenpReads value, *)
(* however many read-count cells the row has and in whatever order they   *)
(* appear.  No cell of a row gives the read-derived earnings              *)
(* independently, so the statement is of every row's candidate.           *)
C26_RowKenpRoyaltiesOfFinalReads ==
    (advPc = "returned" /\ advResult # NoBook) =>
        advResult.kenpRoyalties = advResult.kenpReads * KenpRateMills

----------------------------------------------------------------------------
(* C27: every record returned by processAndDeduplicateBooks has a         *)
(* non-empty region (country), and it is "US" when none of the candidates *)
(* folded into the record supplied a region.                              *)
NoRegion(group) == \A j \in group : ~Truthy(books[j].country)

C27_RegionDefaultsToUS ==
    /\ script = "enhanced" =>
         \A i \in DOMAIN result :
            /\ Truthy(result[i].country)
            /\ NoRegion(Enh_group(Enh_key(result[i]))) => result[i].country = <<"U","S">>
    /\ script = "advanced" =>
         \A i \in DOMAIN result :
            /\ Truthy(result[i].country)
            /\ NoRegion(Adv_group(Adv_key(result[i]))) => result[i].country = <<"U","S">>

\* Two candidates without region were folded into one record by the
\* advanced script.
C27_Witness ==
    /\ script = "advanced"
    /\ Len(result) = 1
    /\ Cardinality(Adv_group(Adv_key(result[1]))) = 2
    /\ NoRegion(Adv_group(Adv_key(result[1])))
    /\ result[1].country = <<"U","S">>

----------------------------------------------------------------------------
(* C28: a sync or extension upload performed for one user never changes   *)
(* the set of books that /api/data returns for a different user: every    *)
(* performFullSync and /api/extension/data call for user B leaves user    *)
(* A's books as they were.                                                *)
Srv_writes == { "setup", "sync", "cron", "upload" }

C28_OtherUsersBooksUnchanged ==
    [][\A a \in SrvUserIds :
         (srvLast'.op \in Srv_writes /\ srvLast'.user \in SrvUserIds \ {a})
            => Srv_userBooks(a)' = Srv_userBooks(a)]_vars

----------------------------------------------------------------------------
(* C29: in the simple background script, after any interleaving of       *)
(* startContinuousSync, stopContinuousSync, toggleContinuousSync and      *)
(* setSyncInterval calls with their asynchronous storage callbacks, at    *)
(* most one sync interval timer is live, and none is live while           *)
(* isAutoSyncEnabled is false.  Stated of the states in which no storage  *)
(* callback is pending.                                                   *)
Sb_quiet == sb.pendingGets = 0 /\ sbLoads = 0

C29_AtMostOneSyncTimer ==
    Sb_quiet =>
        /\ Cardinality(sb.live) <= 1
        /\ ~sb.isAutoSyncEnabled => sb.live = {}

----------------------------------------------------------------------------
(* C31 *)

Kdp_skipped(c) == kdpCalls[c].pc = "settled" /\ ~kdpCalls[c].performed

\* C31: the retry counter of performKDPExtraction does not block extraction
\* forever.  Once a call has returned early because retryCount reached
\* MAX_RETRY_ATTEMPTS, a later call (periodic timer or forced 'extractData'
\* message) performs an extraction again, and a forced request is answered
\* success: true only when its call performed an extraction.
C31_RetryCounterDoesNotBlock ==
    /\ \A c, d \in KdpIds : (c < d /\ Kdp_skipped(c)) => ~Kdp_skipped(d)
    /\ \A c \in KdpIds :
           (kdpCalls[c].from = "message" /\ kdpCalls[c].answer = "success")
               => kdpCalls[c].performed

----------------------------------------------------------------------------
(* C32 *)

Sync_called(c) == syncCalls[c].pc = "idle" /\ syncCalls'[c].pc # "idle"

\* C32: in the advanced background service at most one performScheduledSync
\* body runs at a time.  A call made (by the interval timer, a retry timer
\* or a forceSyncNow message) while syncInProgress is true returns without
\* syncing any tab and leaves the run in progress as it was.
C32_AtMostOneSyncBody ==
    [][/\ Cardinality(Sync_running') <= 1
       /\ \A c \in SyncIds :
            (Sync_called(c) /\ syncInProgress)
               => /\ syncCalls'[c] = [pc |-> "settled", outcome |-> "skipped",
                                      tabs |-> 0, books |-> FALSE]
                  /\ Sync_running' = Sync_running
                  /\ syncInProgress']_vars

\* A forced or retried call was skipped while another call is syncing its
\* tabs.
C32_Witness ==
    \E c, d \in SyncIds :
        /\ syncCalls[c].pc = "tabs"
        /\ syncCalls[d].outcome = "skipped"
        /\ syncInProgress

----------------------------------------------------------------------------
(* C33 *)

\* C33: when POST /api/sync of the dashboard server answers with an error
\* (status 500), dashboardData (users, kdpData, adsData, syncLog) is
\* unchanged from its value before the request.
C33_FailedSyncChangesNothing ==
    [][(~dsAsked' /\ dsStatus' = 500)
          => UNCHANGED <<dsUser, dsKdp, dsAds, dsLog>>]_vars

----------------------------------------------------------------------------
(* C34 *)

\* C34: every POST /api/sync of the dashboard server that is answered
\* success: true has added exactly one entry to the user's kdpData or adsData
\* list, including the requests the background script sends.  (The entry
\* added holds the request's data: Ds_Sync appends nothing else.)
C34_SuccessfulSyncStoresOneEntry ==
    [][(~dsAsked' /\ dsStatus' = 200)
          => Len(dsKdp') + Len(dsAds') = Len(dsKdp) + Len(dsAds) + 1]_vars

----------------------------------------------------------------------------
(* C35 *)

\* C35: the summary.totalSpend returned by processUserData never exceeds the
\* sum of spend over all ad campaign records supplied: each campaign's spend
\* is counted at most once, whatever the number of publishing records it
\* matches.
C35_TotalSpendCountsCampaignOnce ==
    Answered => dsOut.summary.totalSpend <= SumOver(GivenAds, DOMAIN GivenAds, "spend")

----------------------------------------------------------------------------
(* C36 *)

\* C36: for every publishing record the combined record's unitsSold equals
\* that record's own unitsSold (0 stays 0), and summary.totalOrders equals
\* the sum of unitsSold over the publishing records.
C36_UnitsSoldOfTheRecord ==
    Answered =>
        /\ \A i \in DOMAIN GivenKdp :
              dsOut.combinedData[i].unitsSold = JsNum(GivenKdp[i].unitsSold)
        /\ dsOut.summary.totalOrders = SumOver(GivenKdp, DOMAIN GivenKdp, "unitsSold")

----------------------------------------------------------------------------
(* C37 *)

\* C37: in the advanced background service a settings change survives a
\* restart.  After toggleAutoSync(enabled) or setSyncInterval(interval),
\* followed by a re-initialization that has read the settings through
\* loadPersistedData, isAutoSyncEnabled and currentSyncInterval equal the
\* values last set.  Stated of initializations begun after the last change.
C37_SettingsSurviveRestart ==
    (bgsAsked.last = "init" /\ ~bgsAsked.raced) =>
        /\ bgsAsked.toggled => bgs.isAutoSyncEnabled = bgsAsked.enabled
        /\ bgsAsked.interval # 0 => bgs.currentSyncInterval = bgsAsked.interval

----------------------------------------------------------------------------
(* C38 *)

\* C38: in the advanced background service, after any sequence of
\* initializeBackgroundService, toggleAutoSync and setSyncInterval calls,
\* backgroundState.activeIntervals holds exactly one auto-sync timer when
\* isAutoSyncEnabled is true and none when it is false; no other interval
\* timer of the service is running.
C38_OneTimerIffEnabled ==
    bgsAsked.last \in {"init", "toggle", "interval"} =>
        IF bgs.isAutoSyncEnabled
        THEN bgs.autoSync # 0 /\ bgs.live = {bgs.autoSync}
        ELSE bgs.autoSync = 0 /\ bgs.live = {}

\* setSyncInterval has restarted auto-sync: the timer in activeIntervals is
\* not the first one created, and it is the only one running.
C38_Witness ==
    /\ bgsAsked.last = "interval"
    /\ bgs.isAutoSyncEnabled
    /\ bgs.autoSync >= 2
    /\ bgs.live = {bgs.autoSync}

----------------------------------------------------------------------------
(* C39 *)

\* The requests received so far whose entry the handler pushes onto the list
\* of the given type and user, by their number in arrival order.
Cap_received(type, user) ==
    { n \in 1..capCount : /\ Cap_request(capStream, n).type = type
                          /\ Cap_request(capStream, n).user = user }

\* The requests received so far for which the handler pushes a log entry.
Cap_logged == { n \in 1..capCount : Cap_request(capStream, n).data # "null" }

\* list holds at most cap entries, in arrival order, and they are the most
\* recent of the requests in from.
Cap_lastOf(list, from, cap) ==
    LET kept == { list[i] : i \in DOMAIN list }
    IN  /\ Len(list) <= cap
        /\ \A i \in 1..(Len(list) - 1) : list[i] < list[i + 1]
        /\ kept \subseteq from
        /\ \A n \in from \ kept : Len(list) = cap /\ n < list[1]

\* C39: after any sequence of /api/sync requests to the dashboard server,
\* each user's kdpData list and adsData list hold at most 100 entries and
\* syncLog holds at most 1000 entries, and the retained entries are the most
\* recently received ones in arrival order.
C39_ListsKeepTheMostRecent ==
    /\ \A u \in CapUsers :
          /\ Cap_lastOf(capKdp[u], Cap_received("kdp", u), DsEntryCap)
          /\ Cap_lastOf(capAds[u], Cap_received("ads", u), DsEntryCap)
    /\ Cap_lastOf(capLog, Cap_logged, DsLogCap)

\* A user's kdpData list and the log are both full and have dropped their
\* oldest entries.
C39_Witness ==
    /\ Len(capKdp["u1"]) = DsEntryCap
    /\ capKdp["u1"][1] > 1
    /\ Len(capLog) = DsLogCap
    /\ capLog[1] > 1

====
